---- MODULE Spec2Model ----
(***************************************************************************)
(* A model of the cloudinary crate's transformation URL core:              *)
(*   - the typed transformations and their Display renderings,             *)
(*   - Image (new / set_format / get_format / add_transformation / build), *)
(*   - impl TryFrom<Url> for Image (the reverse URL parser).               *)
(*                                                                         *)
(* Text is modelled by TLA+ strings; TLC evaluates Len, \o and SubSeq on   *)
(* them, so every str operation of the source (split, rsplit_once,         *)
(* replace, starts_with, ...) is computed character by character.          *)
(* Option<T> is modelled by a sequence: None is << >>, Some(v) is <<v>>.   *)
(***************************************************************************)
EXTENDS Naturals, Sequences, FiniteSets, TLC

VARIABLES
    image,      \* Option<Image>: the Image value the caller holds
    url,        \* Option<Url>: the Url returned by the latest build() / Url::parse
    result,     \* Option<outcome>: the outcome of the latest Image::try_from(url)
    calls,      \* history: the arguments of the add_transformation calls, in call order
    last_set,   \* history: Option<format> passed to the latest set_format call
    arg,        \* Option<Transformations>: the value handed to to_string()
    rendered,   \* Option<String>: what the latest to_string() returned
    options,    \* UploadOptions.inner: BTreeMap<&str, DataType>, as a function on its keys
    before,     \* history: options as they were before the latest setter call
    call,       \* history: Option<[key, value]> of the latest setter call
    hashed,     \* Option<String>: the text the latest build_form_data fed to the hasher
    form,       \* Option<fields>: the form fields the latest build_form_data produced
    parameter,  \* Option<OptionalParameters>: the upload parameter under inspection
    pair,       \* Option<(key, value)>: what the latest get_pair() returned
    params,     \* BTreeSet<OptionalParameters>: the parameters of an upload, as a set
    inserted,   \* history: the arguments of the insert calls on params, in call order
    accumulated,\* history: the tags added to options and not removed afterwards
    scan,       \* Option<loop state>: the position and locals of the try_from loop
    previous    \* history: what the calls before the latest to_string() / build() returned

vars == <<image, url, result, calls, last_set, arg, rendered,
          options, before, call, hashed, form, parameter, pair,
          params, inserted, accumulated, scan, previous>>
\* the state of the upload layer
\* the state of the scenarios on parameter sets, tags, the parser loop and
\* repeated rendering
history_vars == <<params, inserted, accumulated, scan, previous>>
upload_vars == <<options, before, call, hashed, form, parameter, pair,
                 params, inserted, accumulated, scan, previous>>

None == << >>
Some(v) == <<v>>
IsSome(o) == o # << >>
Unwrap(o) == o[1]

(***************************************************************************)
(* Bounds of the model.                                                    *)
(***************************************************************************)
\* longest public id handed to Image::new
MaxLen == 3
\* most add_transformation calls on one image
MaxTransformations == 2
\* most path segments after the delivery type in a URL handed to Url::parse
MaxRest == 2
\* the longest palette of an automatic background that is rendered
MaxPalette == 2
\* most insert calls on one set of upload parameters
MaxInserts == 3
\* most to_string() and build() calls of the repeated rendering
MaxCalls == 3
\* most path segments after the delivery type in a URL whose parsing is
\* followed segment by segment
MaxScan == 3

(***************************************************************************)
(* str operations of the Rust standard library.                            *)
(***************************************************************************)
CharAt(s, i) == SubSeq(s, i, i)

\* s[i..].starts_with(p)
StartsWithAt(s, p, i) ==
    /\ i + Len(p) <= Len(s) + 1
    /\ SubSeq(s, i, i + Len(p) - 1) = p

EndsWith(s, p) == Len(p) <= Len(s) /\ SubSeq(s, Len(s) - Len(p) + 1, Len(s)) = p

\* s.contains(p)
Contains(s, p) == \E i \in 1..(Len(s) + 1) : StartsWithAt(s, p, i)

\* the least element of a non-empty set of positions
Least(S) == CHOOSE i \in S : \A j \in S : i <= j

\* the positions of character c in s
PositionsOf(s, c) == {i \in 1..Len(s) : CharAt(s, i) = c}

\* the position of the first / last occurrence of character c in s, 0 when absent
FirstIndexOf(s, c) ==
    LET pos == PositionsOf(s, c)
    IN  IF pos = {} THEN 0 ELSE Least(pos)

LastIndexOf(s, c) ==
    LET pos == PositionsOf(s, c)
    IN  IF pos = {} THEN 0 ELSE CHOOSE i \in pos : \A j \in pos : j <= i

\* s.split(c).collect::<Vec<&str>>(): the pieces between the occurrences of
\* c; never empty, "" splits into [""]
Split(s, c) ==
    LET pos == PositionsOf(s, c)
        n == Cardinality(pos)
        \* the position of the k-th occurrence; 0 before the first, Len(s) + 1 after the last
        Nth(k) == IF k = 0 THEN 0
                  ELSE IF k = n + 1 THEN Len(s) + 1
                  ELSE CHOOSE i \in pos : Cardinality({j \in pos : j < i}) = k - 1
    IN  [k \in 1..(n + 1) |-> SubSeq(s, Nth(k - 1) + 1, Nth(k) - 1)]

\* v.join(sep)
RECURSIVE Join(_, _)
Join(v, sep) ==
    IF Len(v) = 0 THEN ""
    ELSE IF Len(v) = 1 THEN v[1]
    ELSE v[1] \o sep \o Join(Tail(v), sep)

\* s.split_once(c): Option<(head, tail)> around the FIRST c
SplitOnce(s, c) ==
    LET i == FirstIndexOf(s, c)
    IN  IF i = 0 THEN None
        ELSE Some(<<SubSeq(s, 1, i - 1), SubSeq(s, i + 1, Len(s))>>)

\* RSplitOnce splitting at the first occurrence, as split_once does
RSplitOnce_AtFirst(s, c) ==
    LET i == FirstIndexOf(s, c)
    IN  IF i = 0 THEN None ELSE Some(<<SubSeq(s, 1, i - 1), SubSeq(s, i + 1, Len(s))>>)

\* s.rsplit_once(c): Option<(head, tail)> around the LAST c
RSplitOnce(s, c) ==
    LET i == LastIndexOf(s, c)
    IN  IF i = 0 THEN None
        ELSE Some(<<SubSeq(s, 1, i - 1), SubSeq(s, i + 1, Len(s))>>)

\* sep after every character of s[lo..hi]
RECURSIVE AfterEachChar(_, _, _, _)
AfterEachChar(s, sep, lo, hi) ==
    IF lo > hi THEN ""
    ELSE IF lo = hi THEN CharAt(s, lo) \o sep
    ELSE LET mid == (lo + hi) \div 2
         IN  AfterEachChar(s, sep, lo, mid) \o AfterEachChar(s, sep, mid + 1, hi)

\* s[i..].replace(from, to) for a non-empty pattern: every non-overlapping
\* match, found left to right
RECURSIVE ReplaceFrom(_, _, _, _)
ReplaceFrom(s, from, to, i) ==
    LET matches == {j \in i..Len(s) : StartsWithAt(s, from, j)}
        j == Least(matches)
    IN  IF matches = {} THEN SubSeq(s, i, Len(s))
        ELSE SubSeq(s, i, j - 1) \o to \o ReplaceFrom(s, from, to, j + Len(from))

\* s.replace(from, to); an empty pattern matches before every character
\* and at the end
Replace(s, from, to) ==
    IF from = "" THEN to \o AfterEachChar(s, to, 1, Len(s))
    ELSE ReplaceFrom(s, from, to, 1)

IsAsciiDigit(c) == c \in {"0", "1", "2", "3", "4", "5", "6", "7", "8", "9"}

(***************************************************************************)
(* Display of the primitive values (core::fmt).                            *)
(***************************************************************************)
DigitChar(d) == CharAt("0123456789abcdef", d + 1)

\* Display of an unsigned integer: decimal, no padding
RECURSIVE U32ToString(_)
U32ToString(n) ==
    IF n < 10 THEN DigitChar(n)
    ELSE U32ToString(n \div 10) \o DigitChar(n % 10)

\* Hex02 without the zero padding, as {:x?} prints
Hex02_Unpadded(n) == IF n < 16 THEN DigitChar(n) ELSE DigitChar(n \div 16) \o DigitChar(n % 16)

\* {:02x?} of a u8: two lowercase hexadecimal digits, zero padded
Hex02(n) == DigitChar(n \div 16) \o DigitChar(n % 16)

\* Display of the f32 whose value is tenths/10: the shortest decimal that
\* reads back, without a fraction when the value is whole
F32ToString(tenths) ==
    IF tenths % 10 = 0 THEN U32ToString(tenths \div 10)
    ELSE U32ToString(tenths \div 10) \o "." \o DigitChar(tenths % 10)

(***************************************************************************)
(* transformation/aspect_ratio.rs                                          *)
(***************************************************************************)
AspectRatioIgnore == [tag |-> "Ignore"]
AspectRatioSides(w, h) == [tag |-> "Sides", w |-> w, h |-> h]
AspectRatioResult(tenths) == [tag |-> "Result", tenths |-> tenths]

AspectRatioToString(ar) ==
    CASE ar.tag = "Sides" -> "ar_" \o U32ToString(ar.w) \o ":" \o U32ToString(ar.h)
      [] ar.tag = "Result" -> "ar_" \o F32ToString(ar.tenths)
      [] ar.tag = "Ignore" -> "fl_ignore_aspect_ratio"

(***************************************************************************)
(* transformation/gravity.rs                                               *)
(***************************************************************************)
GravityTable ==
    [ NorthEast |-> "g_north_east", North |-> "g_north", NorthWest |-> "g_north_west",
      West |-> "g_west", SouthWest |-> "g_south_west", South |-> "g_south",
      SouthEast |-> "g_south_east", East |-> "g_east", Center |-> "g_center",
      AdvEyes |-> "g_adv_eyes", AdvFace |-> "g_adv_face", AdvFaces |-> "g_adv_faces",
      Custom |-> "g_custom", CustomFace |-> "g_custom:face",
      CustomAdvFace |-> "g_custom:adv_face", CustomAdvFaces |-> "g_custom:adv_faces",
      CustomFaces |-> "g_custom:faces", Face |-> "g_face", FaceCenter |-> "g_face:center",
      FaceAuto |-> "g_face:auto", Faces |-> "g_faces", FacesCenter |-> "g_faces:center",
      FacesAuto |-> "g_faces:auto", OcrText |-> "g_ocr_text",
      AutoSubject |-> "g_auto:subject", AutoClassic |-> "g_auto:classic" ]

Gravity == DOMAIN GravityTable

GravityToString(g) == GravityTable[g]

(***************************************************************************)
(* transformation/named_color.rs and transformation/background.rs          *)
(***************************************************************************)
\* Display of NamedColor: the lowercase name of the color
NamedColorToString(c) ==
    CASE c = "Black" -> "black"
      [] c = "White" -> "white"
      [] c = "MediumTurquoise" -> "mediumturquoise"

AutoModesToString(m) ==
    CASE m = "Border" -> "border"
      [] m = "Predominant" -> "predominant"
      [] m = "BorderContrast" -> "border_contrast"
      [] m = "PredominantContrast" -> "predominant_contrast"
      [] m = "PredominantGradient" -> "predominant_gradient"
      [] m = "PredominantGradientContrast" -> "predominant_gradient_contrast"
      [] m = "BorderGradient" -> "border_gradient"
      [] m = "BorderGradientContrast" -> "border_gradient_contrast"

NumberToString(n) ==
    CASE n = "Two" -> "2"
      [] n = "Four" -> "4"

DirectionToString(d) ==
    CASE d = "Horizontal" -> "horizontal"
      [] d = "Vertical" -> "vertical"
      [] d = "DiagonalDesc" -> "diagonal_desc"
      [] d = "DiagonalAsc" -> "diagonal_asc"

ColorNamed(c) == [tag |-> "Named", c |-> c]
ColorRGB(r, g, b) == [tag |-> "RGB", ch |-> <<r, g, b>>]
ColorRGBA(r, g, b, a) == [tag |-> "RGBA", ch |-> <<r, g, b, a>>]

ColorToString(color) ==
    CASE color.tag = "Named" -> NamedColorToString(color.c)
      [] color.tag = "RGB" ->
            "rgb:" \o Hex02(color.ch[1]) \o Hex02(color.ch[2]) \o Hex02(color.ch[3])
      [] color.tag = "RGBA" ->
            "rgb:" \o Hex02(color.ch[1]) \o Hex02(color.ch[2]) \o Hex02(color.ch[3])
                   \o Hex02(color.ch[4])

Auto(mode, number, direction, palette) ==
    [mode |-> mode, number |-> number, direction |-> direction, palette |-> palette]

\* AutoToString with the number pushed ahead of the mode
AutoToString_NumberFirst(auto) ==
    LET p0 == <<"auto">>
        p1 == IF IsSome(auto.number)
              THEN Append(p0, NumberToString(Unwrap(auto.number))) ELSE p0
        p2 == IF IsSome(auto.mode)
              THEN Append(p1, AutoModesToString(Unwrap(auto.mode))) ELSE p1
        p3 == IF IsSome(auto.direction)
              THEN Append(p2, DirectionToString(Unwrap(auto.direction))) ELSE p2
        pal == Unwrap(auto.palette)
        p4 == IF IsSome(auto.palette)
              THEN Append(p3, "palette_" \o
                          Join([i \in 1..Len(pal) |-> ColorToString(pal[i])], "_"))
              ELSE p3
    IN  Join(p4, ":")

AutoToString(auto) ==
    LET p0 == <<"auto">>
        p1 == IF IsSome(auto.mode)
              THEN Append(p0, AutoModesToString(Unwrap(auto.mode))) ELSE p0
        p2 == IF IsSome(auto.number)
              THEN Append(p1, NumberToString(Unwrap(auto.number))) ELSE p1
        p3 == IF IsSome(auto.direction)
              THEN Append(p2, DirectionToString(Unwrap(auto.direction))) ELSE p2
        pal == Unwrap(auto.palette)
        p4 == IF IsSome(auto.palette)
              THEN Append(p3, "palette_" \o
                          Join([i \in 1..Len(pal) |-> ColorToString(pal[i])], "_"))
              ELSE p3
    IN  Join(p4, ":")

BackgroundColor(color) == [tag |-> "Color", v |-> color]
BackgroundAuto(auto) == [tag |-> "Auto", v |-> auto]

BackgroundToString(b) ==
    CASE b.tag = "Color" -> "b_" \o ColorToString(b.v)
      [] b.tag = "Auto" -> "b_" \o AutoToString(b.v)

(***************************************************************************)
(* transformation/resize_mode.rs, crop_mode.rs, pad_mode.rs                *)
(*                                                                         *)
(* Every mode is a record [tag, width, height, ar, background, gravity,    *)
(* liquid]; a field the variant does not carry is absent from the record.  *)
(***************************************************************************)
\* background.as_ref().map(|b| format!("{},", b)).unwrap_or("".into())
BackgroundThenComma(o) == IF IsSome(o) THEN BackgroundToString(Unwrap(o)) \o "," ELSE ""
\* ar.as_ref().map(|ar| format!("{},", ar)).unwrap_or("".into())
AspectRatioThenComma(o) == IF IsSome(o) THEN AspectRatioToString(Unwrap(o)) \o "," ELSE ""
\* gravity.as_ref().map(|g| format!(",{}", g)).unwrap_or("".into())
CommaThenGravity(o) == IF IsSome(o) THEN "," \o GravityToString(Unwrap(o)) ELSE ""
\* liquid.map(|_| ",g_liquid").unwrap_or("")
LiquidToString(liquid) == IF IsSome(liquid) THEN ",g_liquid" ELSE ""

\* ResizeModeToString with the liquid token ahead of the dimensions
ResizeModeToString_LiquidBeforeDimension(m) ==
    CASE m.tag = "ScaleByWidth" ->
            AspectRatioThenComma(m.ar) \o "c_scale" \o LiquidToString(m.liquid)
                \o ",w_" \o U32ToString(m.width)
      [] m.tag = "ScaleByHeight" ->
            AspectRatioThenComma(m.ar) \o "c_scale" \o LiquidToString(m.liquid)
                \o ",h_" \o U32ToString(m.height)
      [] m.tag = "Scale" ->
            "c_scale" \o LiquidToString(m.liquid)
                \o ",w_" \o U32ToString(m.width) \o ",h_" \o U32ToString(m.height)

ResizeModeToString(m) ==
    CASE m.tag = "ScaleByWidth" ->
            AspectRatioThenComma(m.ar) \o "c_scale,w_" \o U32ToString(m.width)
                \o LiquidToString(m.liquid)
      [] m.tag = "ScaleByHeight" ->
            AspectRatioThenComma(m.ar) \o "c_scale,h_" \o U32ToString(m.height)
                \o LiquidToString(m.liquid)
      [] m.tag = "Scale" ->
            "c_scale,w_" \o U32ToString(m.width) \o ",h_" \o U32ToString(m.height)
                \o LiquidToString(m.liquid)

\* CropModeToString with the gravity token after the dimensions
CropModeToString_GravityLast(m) ==
    CASE m.tag = "FillByWidth" ->
            AspectRatioThenComma(m.ar) \o "c_fill"
                \o ",w_" \o U32ToString(m.width) \o CommaThenGravity(m.gravity)
      [] m.tag = "FillByHeight" ->
            AspectRatioThenComma(m.ar) \o "c_fill"
                \o ",h_" \o U32ToString(m.height) \o CommaThenGravity(m.gravity)
      [] m.tag = "Fill" ->
            "c_fill" \o ",w_" \o U32ToString(m.width) \o ",h_" \o U32ToString(m.height)
                \o CommaThenGravity(m.gravity)

CropModeToString(m) ==
    CASE m.tag = "FillByWidth" ->
            AspectRatioThenComma(m.ar) \o "c_fill"
                \o CommaThenGravity(m.gravity) \o ",w_" \o U32ToString(m.width)
      [] m.tag = "FillByHeight" ->
            AspectRatioThenComma(m.ar) \o "c_fill"
                \o CommaThenGravity(m.gravity) \o ",h_" \o U32ToString(m.height)
      [] m.tag = "Fill" ->
            "c_fill" \o CommaThenGravity(m.gravity)
                \o ",w_" \o U32ToString(m.width) \o ",h_" \o U32ToString(m.height)

\* PadModeToString with the aspect ratio ahead of the background
PadModeToString_AspectRatioFirst(m) ==
    CASE m.tag = "PadByWidth" ->
            AspectRatioThenComma(m.ar)
                \o BackgroundThenComma(m.background) \o "c_pad"
                \o CommaThenGravity(m.gravity) \o ",w_" \o U32ToString(m.width)
      [] m.tag = "PadByHeight" ->
            AspectRatioThenComma(m.ar)
                \o BackgroundThenComma(m.background) \o "c_pad"
                \o CommaThenGravity(m.gravity) \o ",h_" \o U32ToString(m.height)
      [] m.tag = "Pad" ->
            BackgroundThenComma(m.background) \o "c_pad"
                \o CommaThenGravity(m.gravity)
                \o ",h_" \o U32ToString(m.height) \o ",w_" \o U32ToString(m.width)

PadModeToString(m) ==
    CASE m.tag = "PadByWidth" ->
            BackgroundThenComma(m.background)
                \o AspectRatioThenComma(m.ar) \o "c_pad"
                \o CommaThenGravity(m.gravity) \o ",w_" \o U32ToString(m.width)
      [] m.tag = "PadByHeight" ->
            BackgroundThenComma(m.background)
                \o AspectRatioThenComma(m.ar) \o "c_pad"
                \o CommaThenGravity(m.gravity) \o ",h_" \o U32ToString(m.height)
      [] m.tag = "Pad" ->
            BackgroundThenComma(m.background) \o "c_pad"
                \o CommaThenGravity(m.gravity)
                \o ",w_" \o U32ToString(m.width) \o ",h_" \o U32ToString(m.height)

(***************************************************************************)
(* transformation/mod.rs: Transformations                                  *)
(***************************************************************************)
Resize(resize_mode) == [kind |-> "Resize", mode |-> resize_mode]
Crop(crop_mode) == [kind |-> "Crop", mode |-> crop_mode]
Pad(pad_mode) == [kind |-> "Pad", mode |-> pad_mode]

TransformationsToString(t) ==
    CASE t.kind = "Resize" -> ResizeModeToString(t.mode)
      [] t.kind = "Crop" -> CropModeToString(t.mode)
      [] t.kind = "Pad" -> PadModeToString(t.mode)


(***************************************************************************)
(* The url crate's Url, as far as build() and try_from() use it: an        *)
(* https URL is [scheme, host, path] with path the serialised path, which  *)
(* starts with "/"; a URL without a host (mailto:, data:) has host None.   *)
(***************************************************************************)
\* the printable ASCII characters of the path percent-encode set (the
\* backquote aside) and their encodings
PathEncodeTable ==
    [c \in {" ", "#", "<", ">", "?", "{", "}"} |->
        CASE c = " " -> "%20" [] c = "#" -> "%23" [] c = "<" -> "%3C" [] c = ">" -> "%3E"
          [] c = "?" -> "%3F" [] c = "{" -> "%7B" [] c = "}" -> "%7D"]

\* utf8_percent_encode(s[i..], PATH): the characters outside the set are
\* copied, the others encoded
RECURSIVE PercentEncodeFrom(_, _)
PercentEncodeFrom(s, i) ==
    LET hits == {j \in i..Len(s) : CharAt(s, j) \in DOMAIN PathEncodeTable}
        j == Least(hits)
    IN  IF hits = {} THEN SubSeq(s, i, Len(s))
        ELSE SubSeq(s, i, j - 1) \o PathEncodeTable[CharAt(s, j)]
                \o PercentEncodeFrom(s, j + 1)

\* utf8_percent_encode(s, PATH)
PercentEncode(s) == PercentEncodeFrom(s, 1)

IsDoubleDot(seg) ==
    seg \in {"..", "%2e%2e", "%2e%2E", "%2E%2e", "%2E%2E", "%2e.", "%2E.", ".%2e", ".%2E"}
IsSingleDot(seg) == seg \in {".", "%2e", "%2E"}

\* the path state of the URL parser over the '/'-separated buffers: a
\* double-dot buffer removes the last segment, a single-dot buffer adds
\* nothing, and either one adds an empty segment when it ends the input
RECURSIVE FoldDotSegments(_, _, _)
FoldDotSegments(segs, i, acc) ==
    IF i > Len(segs) THEN acc
    ELSE LET seg == PercentEncode(segs[i])
             last == i = Len(segs)
             popped == IF Len(acc) = 0 THEN acc ELSE SubSeq(acc, 1, Len(acc) - 1)
         IN  IF IsDoubleDot(seg)
             THEN FoldDotSegments(segs, i + 1, IF last THEN Append(popped, "") ELSE popped)
             ELSE IF IsSingleDot(seg)
             THEN FoldDotSegments(segs, i + 1, IF last THEN Append(acc, "") ELSE acc)
             ELSE FoldDotSegments(segs, i + 1, Append(acc, seg))

\* Parser::parse_path_start for a special scheme: one leading '/' is
\* skipped, the path is normalised and serialised with a leading '/'
ParsePath(input) ==
    LET rest == IF StartsWithAt(input, "/", 1) THEN SubSeq(input, 2, Len(input)) ELSE input
    IN  "/" \o Join(FoldDotSegments(Split(rest, "/"), 1, << >>), "/")

\* Url::parse("https://" + host + raw_path)
UrlParse(host, raw_path) == [scheme |-> "https", host |-> Some(host), path |-> ParsePath(raw_path)]

\* Url::parse of a URL that has no host, e.g. "mailto:a@b.c"
UrlParseNoHost(scheme, opaque) == [scheme |-> scheme, host |-> None, path |-> opaque]

\* url.set_path(path)
UrlSetPath(u, path) == [u EXCEPT !.path = ParsePath(path)]

\* url.host_str()
UrlHostStr(u) == u.host

\* url.path_segments(): None for a URL that cannot be a base
UrlPathSegments(u) ==
    IF StartsWithAt(u.path, "/", 1) THEN Some(Split(SubSeq(u.path, 2, Len(u.path)), "/"))
    ELSE None

\* url.as_str()
UrlAsStr(u) ==
    IF IsSome(u.host) THEN u.scheme \o "://" \o Unwrap(u.host) \o u.path
    ELSE u.scheme \o ":" \o u.path

(***************************************************************************)
(* transformation/mod.rs: Image                                            *)
(***************************************************************************)
\* Image::new
ImageNew(cloud_name, public_id) ==
    [cloud_name |-> cloud_name, public_id |-> public_id, format |-> None,
     transformations |-> << >>]

\* Image::set_format
ImageSetFormat(img, format) == [img EXCEPT !.format = Some(format)]

\* Image::get_format
ImageGetFormat(img) == img.format

\* Image::add_transformation
ImageAddTransformation(img, transformation) ==
    [img EXCEPT !.transformations = Append(@, transformation)]

\* the transformations of build(): each rendered, joined with "/"
JoinedTransformations(img) ==
    Join([i \in 1..Len(img.transformations) |->
            TransformationsToString(img.transformations[i])], "/")

\* ImagePath without the '/' that follows the joined transformations
ImagePath_NoSlashAfterTransformations(img) ==
    img.cloud_name \o "/image/upload/" \o JoinedTransformations(img) \o img.public_id

\* the path of build() before the format is applied
ImagePath(img) ==
    LET transformations == JoinedTransformations(img)
    IN  img.cloud_name \o "/image/upload/"
            \o (IF transformations = "" THEN "" ELSE transformations \o "/")
            \o img.public_id

\* self.public_id.split('/').last().unwrap()
FileName(public_id) == LET v == Split(public_id, "/") IN v[Len(v)]

\* file_name.split('.').collect::<Vec<&str>>().pop().unwrap(): Vec::pop
\* takes the LAST piece
PoppedPiece(file_name) == LET v == Split(file_name, ".") IN v[Len(v)]

\* format!("{}.{}", <popped piece>, format)
NewFileName(file_name, format) == PoppedPiece(file_name) \o "." \o format

\* Image::build
ImageBuild(img) ==
    LET base == UrlParse("res.cloudinary.com", "")
        path == ImagePath(img)
        file_name == FileName(img.public_id)
    IN  IF IsSome(ImageGetFormat(img))
        THEN UrlSetPath(base,
                Replace(path, file_name, NewFileName(file_name, Unwrap(ImageGetFormat(img)))))
        ELSE UrlSetPath(base, path)

\* impl Display for Image
ImageToString(img) == UrlAsStr(ImageBuild(img))

(***************************************************************************)
(* transformation/mod.rs: impl TryFrom<Url> for Image                      *)
(***************************************************************************)
\* IsTransformation accepting every segment that has an underscore
IsTransformation_AnyUnderscore(s) == Contains(s, "_")

IsTransformation(s) ==
    LET r == SplitOnce(s, "_")
    IN  IF IsSome(r) THEN Len(Unwrap(r)[1]) < 4 ELSE FALSE

\* IsVersion matching no segment
IsVersion_Never(s) == FALSE

\* IsVersion accepting 'v' followed by any number of digits
IsVersion_AnyLength(s) ==
    /\ StartsWithAt(s, "v", 1)
    /\ Len(s) >= 2
    /\ \A i \in 2..Len(s) : IsAsciiDigit(CharAt(s, i))

IsVersion(s) ==
    /\ StartsWithAt(s, "v", 1)
    /\ Len(s) = 11
    /\ \A i \in 2..Len(s) : IsAsciiDigit(CharAt(s, i))

\* DeliveryTypes with the delivery type 'raw' accepted as well
DeliveryTypes_WithRaw ==
    {"upload", "fetch", "private", "authenticated", "sprite", "facebook", "twitter",
     "youtube", "vimeo", "raw"}

DeliveryTypes ==
    {"upload", "fetch", "private", "authenticated", "sprite", "facebook", "twitter",
     "youtube", "vimeo"}

Ok(img) == [tag |-> "Ok", image |-> img]
Err(msg) == [tag |-> "Err", msg |-> msg]
\* the call does not return: an unwrap() of None unwinds
Panic == [tag |-> "Panic"]

\* ScanSegments with the asset kind checked only after the delivery type: a
\* wrong kind is remembered and reported when the loop ends without another
\* error
RECURSIVE ScanSegments_KindCheckedLast(_, _, _)
ScanSegments_KindCheckedLast(segs, pos, st) ==
    IF pos >= Len(segs)
    THEN IF Len(segs) >= 2 /\ segs[2] # "image"
         THEN [st EXCEPT !.err = Some("Only image is supported")]
         ELSE st
    ELSE LET s == segs[pos + 1]
             r == RSplitOnce(s, ".")
         IN  CASE pos = 0 ->
                    ScanSegments_KindCheckedLast(segs, 1, [st EXCEPT !.cloud_name = Some(s)])
               [] pos = 1 -> ScanSegments_KindCheckedLast(segs, 2, st)
               [] pos = 2 ->
                    IF s \notin DeliveryTypes THEN [st EXCEPT !.err = Some("Invalid mode")]
                    ELSE ScanSegments_KindCheckedLast(segs, 3, st)
               [] OTHER ->
                    IF ~st.public_id_teritory /\ IsVersion(s)
                    THEN ScanSegments_KindCheckedLast(segs, pos + 1,
                            [st EXCEPT !.public_id_teritory = TRUE])
                    ELSE IF ~st.public_id_teritory /\ IsTransformation(s)
                    THEN ScanSegments_KindCheckedLast(segs, pos + 1, st)
                    ELSE IF IsSome(r)
                    THEN ScanSegments_KindCheckedLast(segs, pos + 1,
                            [st EXCEPT !.public_id_teritory = TRUE,
                                       !.public_id_parts =
                                            Append(@, <<Unwrap(r)[1], Some(Unwrap(r)[2])>>)])
                    ELSE ScanSegments_KindCheckedLast(segs, pos + 1,
                            [st EXCEPT !.public_id_teritory = TRUE,
                                       !.public_id_parts = Append(@, <<s, None>>)])

\* ScanSegments with a version segment matched also after the public id has
\* started
RECURSIVE ScanSegments_VersionAfterLatch(_, _, _)
ScanSegments_VersionAfterLatch(segs, pos, st) ==
    IF pos >= Len(segs) THEN st
    ELSE LET s == segs[pos + 1]
             r == RSplitOnce(s, ".")
         IN  CASE pos = 0 -> ScanSegments_VersionAfterLatch(segs, 1, [st EXCEPT !.cloud_name = Some(s)])
               [] pos = 1 ->
                    IF s # "image" THEN [st EXCEPT !.err = Some("Only image is supported")]
                    ELSE ScanSegments_VersionAfterLatch(segs, 2, st)
               [] pos = 2 ->
                    IF s \notin DeliveryTypes THEN [st EXCEPT !.err = Some("Invalid mode")]
                    ELSE ScanSegments_VersionAfterLatch(segs, 3, st)
               [] OTHER ->
                    IF IsVersion(s)
                    THEN ScanSegments_VersionAfterLatch(segs, pos + 1, [st EXCEPT !.public_id_teritory = TRUE])
                    ELSE IF ~st.public_id_teritory /\ IsTransformation(s)
                    THEN ScanSegments_VersionAfterLatch(segs, pos + 1, st)
                    ELSE IF IsSome(r)
                    THEN ScanSegments_VersionAfterLatch(segs, pos + 1,
                            [st EXCEPT !.public_id_teritory = TRUE,
                                       !.public_id_parts =
                                            Append(@, <<Unwrap(r)[1], Some(Unwrap(r)[2])>>)])
                    ELSE ScanSegments_VersionAfterLatch(segs, pos + 1,
                            [st EXCEPT !.public_id_teritory = TRUE,
                                       !.public_id_parts = Append(@, <<s, None>>)])

\* the for loop over url.path_segments().unwrap().enumerate(), from position
\* pos on; st.err is set by the loop's early returns
RECURSIVE ScanSegments(_, _, _)
ScanSegments(segs, pos, st) ==
    IF pos >= Len(segs) THEN st
    ELSE LET s == segs[pos + 1]
             r == RSplitOnce(s, ".")
         IN  CASE pos = 0 -> ScanSegments(segs, 1, [st EXCEPT !.cloud_name = Some(s)])
               [] pos = 1 ->
                    IF s # "image" THEN [st EXCEPT !.err = Some("Only image is supported")]
                    ELSE ScanSegments(segs, 2, st)
               [] pos = 2 ->
                    IF s \notin DeliveryTypes THEN [st EXCEPT !.err = Some("Invalid mode")]
                    ELSE ScanSegments(segs, 3, st)
               [] OTHER ->
                    IF ~st.public_id_teritory /\ IsVersion(s)
                    THEN ScanSegments(segs, pos + 1, [st EXCEPT !.public_id_teritory = TRUE])
                    ELSE IF ~st.public_id_teritory /\ IsTransformation(s)
                    THEN ScanSegments(segs, pos + 1, st)
                    ELSE IF IsSome(r)
                    THEN ScanSegments(segs, pos + 1,
                            [st EXCEPT !.public_id_teritory = TRUE,
                                       !.public_id_parts =
                                            Append(@, <<Unwrap(r)[1], Some(Unwrap(r)[2])>>)])
                    ELSE ScanSegments(segs, pos + 1,
                            [st EXCEPT !.public_id_teritory = TRUE,
                                       !.public_id_parts = Append(@, <<s, None>>)])

\* format!("{}.{}/", head, tail) or format!("{}/", head) of one earlier part
PartToString(part) ==
    IF IsSome(part[2]) THEN part[1] \o "." \o Unwrap(part[2]) \o "/" ELSE part[1] \o "/"

\* TryFrom returning an image with an empty public id when no public id
\* part was found
TryFrom_PublicIdOptional(u) ==
    IF ~IsSome(UrlHostStr(u)) THEN Panic
    ELSE IF Unwrap(UrlHostStr(u)) # "res.cloudinary.com" THEN Err("Not a cloudinary url")
    ELSE IF ~IsSome(UrlPathSegments(u)) THEN Panic
    ELSE
    LET st == ScanSegments(Unwrap(UrlPathSegments(u)), 0,
                  [err |-> None, cloud_name |-> None, public_id_parts |-> << >>,
                   public_id_teritory |-> FALSE])
        n == Len(st.public_id_parts)
        last == st.public_id_parts[n]
        earlier == SubSeq(st.public_id_parts, 1, n - 1)
        public_id == Join([i \in 1..(n - 1) |-> PartToString(earlier[i])], "") \o last[1]
        img == ImageNew(Unwrap(st.cloud_name), public_id)
    IN  IF IsSome(st.err) THEN Err(Unwrap(st.err))
        ELSE IF ~IsSome(st.cloud_name) THEN Err("No cloud_name is found")
        ELSE IF n = 0 THEN Ok(ImageNew(Unwrap(st.cloud_name), ""))
        ELSE IF IsSome(last[2]) THEN Ok(ImageSetFormat(img, Unwrap(last[2])))
        ELSE Ok(img)

\* Image::try_from(url)
TryFrom(u) ==
    IF ~IsSome(UrlHostStr(u)) THEN Panic
    ELSE IF Unwrap(UrlHostStr(u)) # "res.cloudinary.com" THEN Err("Not a cloudinary url")
    ELSE IF ~IsSome(UrlPathSegments(u)) THEN Panic
    ELSE
    LET st == ScanSegments(Unwrap(UrlPathSegments(u)), 0,
                  [err |-> None, cloud_name |-> None, public_id_parts |-> << >>,
                   public_id_teritory |-> FALSE])
        n == Len(st.public_id_parts)
        last == st.public_id_parts[n]
        earlier == SubSeq(st.public_id_parts, 1, n - 1)
        public_id == Join([i \in 1..(n - 1) |-> PartToString(earlier[i])], "") \o last[1]
        img == ImageNew(Unwrap(st.cloud_name), public_id)
    IN  IF IsSome(st.err) THEN Err(Unwrap(st.err))
        ELSE IF ~IsSome(st.cloud_name) THEN Err("No cloud_name is found")
        ELSE IF n = 0 THEN Err("no public_id is found")
        ELSE IF IsSome(last[2]) THEN Ok(ImageSetFormat(img, Unwrap(last[2])))
        ELSE Ok(img)


(***************************************************************************)
(* upload/options.rs: OptionalParameters                                   *)
(***************************************************************************)
\* the variants that carry a Vec<Transformations>
Transformation(vec) == [tag |-> "Transformation", vec |-> vec]
Eager(vec) == [tag |-> "Eager", vec |-> vec]

\* vec.iter().map(|t| t.to_string())
RenderedEach(vec) == [i \in 1..Len(vec) |-> TransformationsToString(vec[i])]

(***************************************************************************)
(* upload/data_types.rs, delivery_type.rs, access_mode.rs,                 *)
(* resource_type.rs                                                        *)
(***************************************************************************)
\* the variants of DataType that the modelled setters store
DataTypeString(value) == [type |-> "String", value |-> value]
DataTypeBoolean(value) == [type |-> "Boolean", value |-> value]
DataTypeDeliveryType(value) == [type |-> "DeliveryType", value |-> value]
DataTypeAccessModes(value) == [type |-> "AccessModes", value |-> value]
DataTypeResourceTypes(value) == [type |-> "ResourceTypes", value |-> value]
DataTypeHasSet(value) == [type |-> "HasSet", value |-> value]

\* impl Display for DeliveryType
DeliveryTypeTable ==
    << <<"Upload", "upload">>, <<"Private", "private">>,
       <<"Authenticated", "authenticated">>, <<"List", "list">>, <<"Fetch", "fetch">>,
       <<"Facebook", "facebook">>, <<"Twitter", "twitter">>,
       <<"TwitterName", "twitter_name">>, <<"Gravatar", "gravatar">>,
       <<"Youtube", "youtube">>, <<"Hulu", "hulu">>, <<"Vimeo", "vimeo">>,
       <<"Animoto", "animoto">>, <<"Worldstarhiphop", "worldstarhiphop">>,
       <<"Dailymotion", "dailymotion">>, <<"Multi", "multi">>, <<"Text", "text">>,
       <<"Asset", "asset">> >>
DeliveryTypeToString(d) ==
    LET i == CHOOSE j \in 1..Len(DeliveryTypeTable) : DeliveryTypeTable[j][1] = d
    IN  DeliveryTypeTable[i][2]

\* impl Display for AccessModes
AccessModesToString(a) == IF a = "Public" THEN "public" ELSE "authenticated"

\* impl Display for ResourceTypes
ResourceTypesToString(r) ==
    IF r = "Image" THEN "image"
    ELSE IF r = "Raw" THEN "raw"
    ELSE IF r = "Video" THEN "video"
    ELSE "auto"

\* impl Display for bool
BoolToString(b) == IF b THEN "true" ELSE "false"

\* impl Display for DataType
\* value.iter() of a HashSet: every element once, in an order that the
\* standard library leaves unspecified
HashSetIter(set) ==
    CHOOSE v \in [1..Cardinality(set) -> set] : {v[i] : i \in 1..Cardinality(set)} = set

DataTypeToString(d) ==
    IF d.type = "String" THEN d.value
    ELSE IF d.type = "Boolean" THEN BoolToString(d.value)
    ELSE IF d.type = "DeliveryType" THEN DeliveryTypeToString(d.value)
    ELSE IF d.type = "AccessModes" THEN AccessModesToString(d.value)
    ELSE IF d.type = "ResourceTypes" THEN ResourceTypesToString(d.value)
    ELSE Join(HashSetIter(d.value), ",")

(***************************************************************************)
(* std::collections::BTreeMap keyed by str: a function on its keys, which  *)
(* is iterated in ascending byte order of the keys.                        *)
(***************************************************************************)
\* the byte of a character of an option key: '_' or a lowercase letter
ByteOf(c) == IF c = "_" THEN 95 ELSE 96 + FirstIndexOf("abcdefghijklmnopqrstuvwxyz", c)

\* impl Ord for str: a < b, decided by the first byte that differs, or by
\* the length when one is a prefix of the other
StrLess(a, b) ==
    LET n == IF Len(a) < Len(b) THEN Len(a) ELSE Len(b)
        differ == {i \in 1..n : CharAt(a, i) # CharAt(b, i)}
    IN  IF differ = {} THEN Len(a) < Len(b)
        ELSE ByteOf(CharAt(a, Least(differ))) < ByteOf(CharAt(b, Least(differ)))

\* BTreeMap::new()
BTreeMapNew == [k \in {} |-> None]

\* map.insert(key, value): the value of an existing key is replaced
BTreeMapInsert(map, key, value) ==
    [k \in DOMAIN map \cup {key} |-> IF k = key THEN value ELSE map[k]]

\* map.remove(key)
BTreeMapRemove(map, key) == [k \in DOMAIN map \ {key} |-> map[k]]

\* map.get(key)
BTreeMapGet(map, key) == IF key \in DOMAIN map THEN Some(map[key]) ELSE None

\* the keys in ascending order
RECURSIVE Ascending(_)
Ascending(keys) ==
    IF keys = {} THEN << >>
    ELSE LET first == CHOOSE k \in keys : \A j \in keys \ {k} : StrLess(k, j)
         IN  <<first>> \o Ascending(keys \ {first})

\* the keys of map.iter(), in iteration order
BTreeMapKeys(map) == Ascending(DOMAIN map)

(***************************************************************************)
(* upload/categorizations.rs and upload/options.rs: the key, value,        *)
(* equality, order and hash of OptionalParameters.                         *)
(***************************************************************************)
\* impl Display for Categorizations
CategorizationsToString(c) ==
    IF c = "Google" THEN "google_tagging"
    ELSE IF c = "GoogleVideo" THEN "google_video_tagging"
    ELSE IF c = "Imagga" THEN "imagga_tagging"
    ELSE "auto_tagging"

\* enum Categorizations
Categorizations == {"Google", "GoogleVideo", "Imagga", "AwsRek"}

\* the variants with a modelled payload other than Vec<Transformations>
PublicId(s) == [tag |-> "PublicId", value |-> s]
Overwrite(b) == [tag |-> "Overwrite", value |-> b]
Categorization(e) == [tag |-> "Categorization", value |-> e]
Ocr == [tag |-> "Ocr"]

\* get_pair().0: the variants in the order of the match, each with its key
OptionalParametersKeyTable ==
    << <<"PublicId", "public_id">>, <<"PublicIdPrefix", "public_id_prefix">>,
       <<"DisplayName", "display_name">>, <<"AssetFolder", "asset_folder">>,
       <<"UseAssetFolderAsPublicIdPrefix", "use_asset_folder_as_public_id_prefix">>,
       <<"Folder", "folder">>, <<"UseFileName", "use_filename">>,
       <<"UseFilenameAsDisplayName", "use_filename_as_display_name">>,
       <<"UniqueFilename", "unique_filename">>,
       <<"FilenameOverride", "filename_override">>,
       <<"ResourceType", "resource_type">>, <<"Type", "type">>,
       <<"AccessControl", "access_control">>, <<"AccessMode", "access_mode">>,
       <<"DiscardOriginalFilename", "discard_original_filename">>,
       <<"Overwrite", "overwrite">>, <<"Tags", "tags">>, <<"Context", "context">>,
       <<"Metadata", "metadata">>, <<"ClearInvalid", "clear_invalid">>,
       <<"Colors", "colors">>, <<"Faces", "faces">>,
       <<"QualityAnalysis", "quality_analysis">>,
       <<"AccessibilityAnalysis", "accessibility_analysis">>,
       <<"CinemagraphAnalysis", "cinemagraph_analysis">>,
       <<"MediaMetadata", "media_metadata">>, <<"Phash", "phash">>,
       <<"ResponsiveBreakpoints", "responsive_breakpoints">>,
       <<"AutoTagging", "auto_tagging">>, <<"Categorization", "categorization">>,
       <<"Detection", "detection">>, <<"AutoChaptering", "auto_chaptering">>,
       <<"AutoTranscription", "auto_transcription">>, <<"Ocr", "ocr">>,
       <<"VisualSearch", "visual_search">>, <<"Eager", "eager">>,
       <<"EagerAsync", "eager_async">>,
       <<"EagerNotificationUrl", "eager_notification_url">>,
       <<"Transformation", "transformation">>, <<"Format", "format">>,
       <<"CustomCoordinates", "custom_coordinates">>, <<"Regions", "regions">>,
       <<"FaceCoordinates", "face_coordinates">>,
       <<"AllowedFormats", "allowed_formats">>, <<"Async", "async">>,
       <<"Backup", "backup">>, <<"Callback", "callback">>, <<"Eval", "eval">>,
       <<"OnSuccess", "on_success">>, <<"Headers", "headers">>,
       <<"Invalidate", "invalidate">>, <<"Moderation", "moderation">>,
       <<"NotificationUrl", "notification_url">>, <<"Proxy", "proxy">>,
       <<"ReturnDeleteToken", "return_delete_token">>,
       <<"BackgroundRemoval", "background_removal">>, <<"RawConvert", "raw_convert">> >>

OptionalParametersKey(p) ==
    LET i == CHOOSE j \in 1..Len(OptionalParametersKeyTable) :
                OptionalParametersKeyTable[j][1] = p.tag
    IN  OptionalParametersKeyTable[i][2]

\* get_pair joining the eager transformations with "," instead of "|"
OptionalParametersGetPair_EagerCommaJoined(p) ==
    CASE p.tag = "Eager" -> <<"eager", Join(RenderedEach(p.vec), ",")>>
      [] p.tag = "Transformation" -> <<"transformation", Join(RenderedEach(p.vec), "/")>>
      [] p.tag = "Categorization" ->
            <<OptionalParametersKey(p), CategorizationsToString(p.value)>>
      [] p.tag = "Ocr" -> <<OptionalParametersKey(p), "adv_ocr">>
      [] p.tag = "Overwrite" -> <<OptionalParametersKey(p), BoolToString(p.value)>>
      [] p.tag = "PublicId" -> <<OptionalParametersKey(p), p.value>>

\* OptionalParameters::get_pair for the modelled variants
OptionalParametersGetPair(p) ==
    CASE p.tag = "Eager" -> <<"eager", Join(RenderedEach(p.vec), "|")>>
      [] p.tag = "Transformation" -> <<"transformation", Join(RenderedEach(p.vec), "/")>>
      [] p.tag = "Categorization" ->
            <<OptionalParametersKey(p), CategorizationsToString(p.value)>>
      [] p.tag = "Ocr" -> <<OptionalParametersKey(p), "adv_ocr">>
      [] p.tag = "Overwrite" -> <<OptionalParametersKey(p), BoolToString(p.value)>>
      [] p.tag = "PublicId" -> <<OptionalParametersKey(p), p.value>>

\* impl PartialEq for OptionalParameters
OptionalParametersEq(a, b) == OptionalParametersGetPair(a)[1] = OptionalParametersGetPair(b)[1]

\* impl Ord for str, as an Ordering
StrCmp(a, b) == IF a = b THEN "Equal" ELSE IF StrLess(a, b) THEN "Less" ELSE "Greater"

\* impl Ord for OptionalParameters
OptionalParametersCmp(a, b) ==
    StrCmp(OptionalParametersGetPair(a)[1], OptionalParametersGetPair(b)[1])

\* impl Hash for OptionalParameters: what is written to the hasher
OptionalParametersHash(p) == <<OptionalParametersGetPair(p)[1]>>

\* BTreeSet::insert admitting a second element that compares Equal
BTreeSetInsert_KeepsBoth(set, p) == set \cup {p}

\* set.insert(p): when the set holds an element that compares Equal to p
\* the set is left as it is, p is not stored
BTreeSetInsert(set, p) ==
    IF \E e \in set : OptionalParametersCmp(e, p) = "Equal" THEN set ELSE set \cup {p}

\* HashSet::insert: when the set holds an element with the same hash that
\* is equal to p the set is left as it is
HashSetInsert(set, p) ==
    IF \E e \in set : OptionalParametersHash(e) = OptionalParametersHash(p)
                        /\ OptionalParametersEq(e, p)
    THEN set ELSE set \cup {p}

\* set.iter(): the elements in ascending order
BTreeSetIter(set) ==
    [i \in 1..Cardinality(set) |->
        CHOOSE p \in set :
            Cardinality({e \in set : OptionalParametersCmp(e, p) = "Less"}) = i - 1]

\* the form fields derived from a set of parameters: the pair of each
\* parameter, in iteration order
ParametersForm(set) ==
    LET v == BTreeSetIter(set)
    IN  [i \in 1..Len(v) |-> OptionalParametersGetPair(v[i])]

(***************************************************************************)
(* upload/mod.rs: UploadOptions                                            *)
(***************************************************************************)
\* UploadOptions::new
UploadOptionsNew == BTreeMapNew

\* UploadOptions::get_string
GetString(o, key) ==
    LET v == BTreeMapGet(o, key)
    IN  IF IsSome(v) THEN (IF Unwrap(v).type = "String" THEN Some(Unwrap(v).value) ELSE None)
        ELSE None

\* UploadOptions::get_bool
GetBool(o, key) ==
    LET v == BTreeMapGet(o, key)
    IN  IF IsSome(v) THEN (IF Unwrap(v).type = "Boolean" THEN Some(Unwrap(v).value) ELSE None)
        ELSE None

\* if let Some(DataType::<type>(value)) = self.inner.get(key) { return Some(value) } None
GetTyped(o, key, type) ==
    LET v == BTreeMapGet(o, key)
    IN  IF IsSome(v) THEN (IF Unwrap(v).type = type THEN Some(Unwrap(v).value) ELSE None)
        ELSE None

\* UploadOptions::get_map
GetMap(o) == [k \in DOMAIN o |-> DataTypeToString(o[k])]

\* the elements of a slice
Elements(slice) == {slice[i] : i \in 1..Len(slice)}

\* UploadOptions::add_tags
AddTags(o, tags) ==
    LET v == BTreeMapGet(o, "tags")
    IN  IF IsSome(v) /\ Unwrap(v).type = "HasSet"
        THEN BTreeMapInsert(o, "tags", DataTypeHasSet(Unwrap(v).value \cup Elements(tags)))
        ELSE BTreeMapInsert(o, "tags", DataTypeHasSet(Elements(tags)))

\* UploadOptions::remove_tags
RemoveTags(o, tags) ==
    LET v == BTreeMapGet(o, "tags")
        inner_tags == Unwrap(v).value \ Elements(tags)
    IN  IF IsSome(v) /\ Unwrap(v).type = "HasSet"
        THEN IF inner_tags = {} THEN BTreeMapRemove(o, "tags")
             ELSE BTreeMapInsert(o, "tags", DataTypeHasSet(inner_tags))
        ELSE o

\* UploadOptions::get_tags
GetTags(o) ==
    LET v == BTreeMapGet(o, "tags")
    IN  IF IsSome(v) /\ Unwrap(v).type = "HasSet" THEN Some(Unwrap(v).value) ELSE None

\* get_X() for the option X: get_folder, get_upload_preset, get_type,
\* get_access_mode, get_public_id, get_use_filename, get_resource_type,
\* get_transformation
Getter(key, o) ==
    CASE key = "folder" -> GetString(o, "folder")
      [] key = "upload_preset" -> GetString(o, "upload_preset")
      [] key = "type" -> GetTyped(o, "type", "DeliveryType")
      [] key = "access_mode" -> GetTyped(o, "access_mode", "AccessModes")
      [] key = "public_id" -> GetString(o, "public_id")
      [] key = "use_filename" -> GetBool(o, "use_filename")
      [] key = "resource_type" -> GetTyped(o, "resource_type", "ResourceTypes")
      [] key = "transformation" -> GetString(o, "transformation")

\* Setter with set_upload_preset storing its value under the key of set_folder
Setter_UploadPresetUnderFolder(key, o, value) ==
    CASE key = "folder" -> BTreeMapInsert(o, "folder", DataTypeString(value))
      [] key = "upload_preset" -> BTreeMapInsert(o, "folder", DataTypeString(value))
      [] key = "type" -> BTreeMapInsert(o, "type", DataTypeDeliveryType(value))
      [] key = "access_mode" -> BTreeMapInsert(o, "access_mode", DataTypeAccessModes(value))
      [] key = "public_id" -> BTreeMapInsert(o, "public_id", DataTypeString(value))
      [] key = "use_filename" -> BTreeMapInsert(o, "use_filename", DataTypeBoolean(value))
      [] key = "resource_type" ->
            BTreeMapInsert(o, "resource_type", DataTypeResourceTypes(value))
      [] key = "transformation" -> BTreeMapInsert(o, "transformation", DataTypeString(value))

\* set_X(value) for the option X: set_folder, set_upload_preset, set_type,
\* set_access_mode, set_public_id, set_use_filename, set_resource_type,
\* set_transformation
Setter(key, o, value) ==
    CASE key = "folder" -> BTreeMapInsert(o, "folder", DataTypeString(value))
      [] key = "upload_preset" -> BTreeMapInsert(o, "upload_preset", DataTypeString(value))
      [] key = "type" -> BTreeMapInsert(o, "type", DataTypeDeliveryType(value))
      [] key = "access_mode" -> BTreeMapInsert(o, "access_mode", DataTypeAccessModes(value))
      [] key = "public_id" -> BTreeMapInsert(o, "public_id", DataTypeString(value))
      [] key = "use_filename" -> BTreeMapInsert(o, "use_filename", DataTypeBoolean(value))
      [] key = "resource_type" ->
            BTreeMapInsert(o, "resource_type", DataTypeResourceTypes(value))
      [] key = "transformation" -> BTreeMapInsert(o, "transformation", DataTypeString(value))

(***************************************************************************)
(* upload/mod.rs: Upload::build_form_data; lib.rs:                         *)
(* Cloudinary::build_form_data has the same body.                          *)
(***************************************************************************)
\* Upload::new
UploadNew(api_key, cloud_name, api_secret) ==
    [api_key |-> api_key, cloud_name |-> cloud_name, api_secret |-> api_secret]

\* map.iter().map(|(k, v)| format!("{k}={v}")).join("&")
JoinedPairs(map) ==
    LET keys == BTreeMapKeys(map)
    IN  Join([i \in 1..Len(keys) |-> keys[i] \o "=" \o map[keys[i]]], "&")

\* HashedText with the '&' written before the timestamp also when no option
\* is signed
HashedText_AlwaysAmpersand(upload, map, timestamp) ==
    JoinedPairs(map) \o "&" \o "timestamp=" \o timestamp \o upload.api_secret

\* the bytes the hasher has been fed when finalize() is called
HashedText(upload, map, timestamp) ==
    LET str == JoinedPairs(map)
    IN  (IF str # "" THEN str \o "&" ELSE "")
            \o "timestamp=" \o timestamp \o upload.api_secret

\* format!("{:x}", Sha1(text)): the digest is not computed, it is kept as
\* a term over the text that was hashed
Sha1Hex(text) == "sha1(" \o text \o ")"

\* build_form_data: the fields of the Form in the order they are added, and
\* the text that was hashed for the signature
BuildFormData(upload, o, timestamp) ==
    LET all == GetMap(o)
        resource_type == BTreeMapGet(all, "resource_type")
        map == BTreeMapRemove(all, "resource_type")
        keys == BTreeMapKeys(map)
        text == HashedText(upload, map, timestamp)
    IN  [hashed |-> text,
         form |-> << <<"api_key", upload.api_key>>, <<"timestamp", timestamp>> >>
                    \o (IF IsSome(resource_type)
                        THEN << <<"resource_type", Unwrap(resource_type)>> >> ELSE << >>)
                    \o << <<"signature", Sha1Hex(text)>> >>
                    \o [i \in 1..Len(keys) |-> <<keys[i], map[keys[i]]>>]]

(***************************************************************************)
(* The inputs of the model.                                                *)
(***************************************************************************)
\* the characters public ids are made of: a letter (one that also occurs in
\* the rendered transformations "c_scale,..." and "c_pad,..."), the extension
\* and folder separators, and a character of the path percent-encode set
PidChars == {"c", ".", "/", "?"}

RECURSIVE StringsOfLen(_)
StringsOfLen(n) ==
    IF n = 0 THEN {""} ELSE {s \o c : s \in StringsOfLen(n - 1), c \in PidChars}

\* every string of at most MaxLen characters, and the public ids of the
\* source's tests and documentation
PublicIds ==
    UNION {StringsOfLen(n) : n \in 0..MaxLen} \cup {"path/name", "path/name.jpg", "1.2"}
CloudNames == {"c", "test"}
Formats == {"png", "jpg"}

ScaleByWidth(width, ar, liquid) ==
    [tag |-> "ScaleByWidth", width |-> width, ar |-> ar, liquid |-> liquid]
ScaleByHeight(height, ar, liquid) ==
    [tag |-> "ScaleByHeight", height |-> height, ar |-> ar, liquid |-> liquid]
Scale(width, height, liquid) ==
    [tag |-> "Scale", width |-> width, height |-> height, liquid |-> liquid]
FillByWidth(width, ar, gravity) ==
    [tag |-> "FillByWidth", width |-> width, ar |-> ar, gravity |-> gravity]
FillByHeight(height, ar, gravity) ==
    [tag |-> "FillByHeight", height |-> height, ar |-> ar, gravity |-> gravity]
Fill(width, height, gravity) ==
    [tag |-> "Fill", width |-> width, height |-> height, gravity |-> gravity]
PadByWidth(width, ar, background, gravity) ==
    [tag |-> "PadByWidth", width |-> width, ar |-> ar, background |-> background,
     gravity |-> gravity]
PadByHeight(height, ar, background, gravity) ==
    [tag |-> "PadByHeight", height |-> height, ar |-> ar, background |-> background,
     gravity |-> gravity]
PadBoth(width, height, background, gravity) ==
    [tag |-> "Pad", width |-> width, height |-> height, background |-> background,
     gravity |-> gravity]

\* the transformations the builder scenario adds
BuilderTransformations ==
    { Resize(ScaleByWidth(100, None, None)), Pad(PadByWidth(100, None, None, None)) }

\* the values the rendering scenario renders
Dimensions == {1, 100}
ArOptions ==
    {None, Some(AspectRatioIgnore), Some(AspectRatioSides(16, 9)), Some(AspectRatioResult(5))}
LiquidOptions == {None, Some(<< >>)}
GravityOptions == {None} \cup {Some(g) : g \in Gravity}
FixtureAuto ==
    Auto(Some("BorderGradient"), Some("Four"), Some("Vertical"),
         Some(<<ColorNamed("Black"), ColorNamed("White")>>))
BackgroundOptions ==
    {None, Some(BackgroundColor(ColorNamed("Black"))),
     Some(BackgroundColor(ColorRGB(2, 10, 255))),
     Some(BackgroundAuto(Auto(None, None, None, None))),
     Some(BackgroundAuto(FixtureAuto))}

ResizeModes ==
    {ScaleByWidth(w, ar, l) : w \in Dimensions, ar \in ArOptions, l \in LiquidOptions}
    \cup {ScaleByHeight(h, ar, l) : h \in Dimensions, ar \in ArOptions, l \in LiquidOptions}
    \cup {Scale(w, h, l) : w \in Dimensions, h \in Dimensions, l \in LiquidOptions}
CropModes ==
    {FillByWidth(w, ar, g) : w \in Dimensions, ar \in ArOptions, g \in GravityOptions}
    \cup {FillByHeight(h, ar, g) : h \in Dimensions, ar \in ArOptions, g \in GravityOptions}
    \cup {Fill(w, h, g) : w \in Dimensions, h \in Dimensions, g \in GravityOptions}
PadModes ==
    {PadByWidth(w, ar, b, g) :
        w \in Dimensions, ar \in ArOptions, b \in BackgroundOptions, g \in GravityOptions}
    \cup {PadByHeight(h, ar, b, g) :
        h \in Dimensions, ar \in ArOptions, b \in BackgroundOptions, g \in GravityOptions}
    \cup {PadBoth(w, h, b, g) :
        w \in Dimensions, h \in Dimensions, b \in BackgroundOptions, g \in GravityOptions}
AllTransformations ==
    {Resize(m) : m \in ResizeModes} \cup {Crop(m) : m \in CropModes}
        \cup {Pad(m) : m \in PadModes}

\* the URLs handed to Url::parse: a host and the path segments cloud name,
\* asset kind, delivery type and up to MaxRest further segments
Hosts == {"res.cloudinary.com", "example.com"}
UrlCloudNames == {"c", ""}
AssetKinds == {"image", "video"}
Modes == {"upload", "fetch", "raw"}
RestSegments == {"c", "c.jpg", "c.x.jpg", "w_1", "v1234567890", ""}

RECURSIVE SeqsOfLen(_, _)
SeqsOfLen(S, n) ==
    IF n = 0 THEN {<< >>} ELSE {Append(v, e) : v \in SeqsOfLen(S, n - 1), e \in S}

SegmentLists ==
    {<< >>}
    \cup {<<c>> : c \in UrlCloudNames}
    \cup {<<c, k>> : c \in UrlCloudNames, k \in AssetKinds}
    \cup {<<c, k, m>> \o rest :
            c \in UrlCloudNames, k \in AssetKinds, m \in Modes,
            rest \in UNION {SeqsOfLen(RestSegments, n) : n \in 0..MaxRest}}

\* the URLs of the tests from_url_with_dots_in_transformation,
\* from_url_with_dots_in_public_id and from_url_without_extension
TestUrls ==
    {UrlParse("res.cloudinary.com", path) :
        path \in {"/test/image/upload/ar_0.5,foo/1.jpg",
                  "/test/image/upload/ar_0.5,foo/1.2.jpg",
                  "/test/image/upload/ar_0.5,foo/v1640995200/1"}}

ParsedUrls ==
    {UrlParse(h, "/" \o Join(segs, "/")) : h \in Hosts, segs \in SegmentLists}
    \cup {UrlParseNoHost("mailto", "a@example.com"), UrlParseNoHost("data", "text/plain,x")}
    \cup TestUrls

(***************************************************************************)
(* The builder / parser state machine.                                     *)
(***************************************************************************)
\* no parameter set, no tags and no repeated rendering are under inspection
HistoryIdle ==
    /\ params = {}
    /\ inserted = << >>
    /\ accumulated = {}
    /\ scan = None
    /\ previous = << >>

\* the upload layer has not been used: fresh UploadOptions, no form data
\* built, no upload parameter
UploadIdle ==
    /\ options = UploadOptionsNew
    /\ before = UploadOptionsNew
    /\ call = None
    /\ hashed = None
    /\ form = None
    /\ parameter = None
    /\ pair = None
    /\ HistoryIdle

\* the caller starts from Image::new(cloud_name, public_id) ...
InitNew ==
    /\ image \in {Some(ImageNew(c, p)) : c \in CloudNames, p \in PublicIds}
    /\ url = None

\* ... or from a Url it got from Url::parse
InitUrl ==
    /\ image = None
    /\ url \in {Some(u) : u \in ParsedUrls}

Init ==
    /\ InitNew \/ InitUrl
    /\ result = None
    /\ calls = << >>
    /\ last_set = None
    /\ arg = None
    /\ rendered = None
    /\ UploadIdle

\* image.set_format(format); the Url and outcome the caller held are dropped
SetFormat(format) ==
    /\ IsSome(image)
    /\ image' = Some(ImageSetFormat(Unwrap(image), format))
    /\ last_set' = Some(format)
    /\ url' = None
    /\ result' = None
    /\ UNCHANGED <<calls, arg, rendered>>
    /\ UNCHANGED upload_vars

\* image = image.add_transformation(t)
AddTransformation(t) ==
    /\ IsSome(image)
    /\ Len(Unwrap(image).transformations) < MaxTransformations
    /\ image' = Some(ImageAddTransformation(Unwrap(image), t))
    /\ calls' = Append(calls, t)
    /\ url' = None
    /\ result' = None
    /\ UNCHANGED <<last_set, arg, rendered>>
    /\ UNCHANGED upload_vars

\* url = image.build(); build() is a pure function of the image, so it is
\* taken once per value of the image
Build ==
    /\ IsSome(image)
    /\ url = None
    /\ url' = Some(ImageBuild(Unwrap(image)))
    /\ result' = None
    /\ UNCHANGED <<image, calls, last_set, arg, rendered>>
    /\ UNCHANGED upload_vars

\* result = Image::try_from(url)
TryFromUrl ==
    /\ IsSome(url)
    /\ result = None
    /\ result' = Some(TryFrom(Unwrap(url)))
    /\ UNCHANGED <<image, url, calls, last_set, arg, rendered>>
    /\ UNCHANGED upload_vars

\* image = result.unwrap(), for a caller that holds no image yet; the Url
\* was moved into try_from
UnwrapResult ==
    /\ image = None
    /\ IsSome(result)
    /\ Unwrap(result).tag = "Ok"
    /\ image' = Some(Unwrap(result).image)
    /\ url' = None
    /\ result' = None
    /\ UNCHANGED <<calls, last_set, arg, rendered>>
    /\ UNCHANGED upload_vars

Next ==
    \/ \E format \in Formats : SetFormat(format)
    \/ \E t \in BuilderTransformations : AddTransformation(t)
    \/ Build
    \/ TryFromUrl
    \/ UnwrapResult

Spec == Init /\ [][Next]_vars

(***************************************************************************)
(* The rendering state machine: one transformation value is rendered with  *)
(* to_string(), and added to the image ("test", "path/name") that is built.*)
(***************************************************************************)
RenderInit ==
    /\ arg \in {Some(t) : t \in AllTransformations}
    /\ rendered = None
    /\ image = Some(ImageNew("test", "path/name"))
    /\ url = None
    /\ result = None
    /\ calls = << >>
    /\ last_set = None
    /\ UploadIdle

\* rendered = arg.to_string()
Render ==
    /\ IsSome(arg)
    /\ rendered' = Some(TransformationsToString(Unwrap(arg)))
    /\ UNCHANGED <<image, url, result, calls, last_set, arg>>
    /\ UNCHANGED upload_vars

RenderNext ==
    \/ Render
    \/ AddTransformation(Unwrap(arg))
    \/ Build

RenderSpec == RenderInit /\ [][RenderNext]_vars


(***************************************************************************)
(* The background rendering state machine: one Color, Auto or Background   *)
(* value is rendered with to_string().                                     *)
(***************************************************************************)
U8 == 0..255
\* the channel values combined with every value of one channel
ChannelSamples == {0, 2, 255}
Colors ==
    {ColorNamed(c) : c \in {"Black", "White", "MediumTurquoise"}}
    \cup {ColorRGB(x, y, z) : x \in U8, y \in ChannelSamples, z \in ChannelSamples}
    \cup {ColorRGB(y, x, z) : x \in U8, y \in ChannelSamples, z \in ChannelSamples}
    \cup {ColorRGB(y, z, x) : x \in U8, y \in ChannelSamples, z \in ChannelSamples}
    \cup {ColorRGBA(x, y, z, y) : x \in U8, y \in ChannelSamples, z \in ChannelSamples}
    \cup {ColorRGBA(y, x, z, z) : x \in U8, y \in ChannelSamples, z \in ChannelSamples}
    \cup {ColorRGBA(y, z, x, y) : x \in U8, y \in ChannelSamples, z \in ChannelSamples}
    \cup {ColorRGBA(y, z, z, x) : x \in U8, y \in ChannelSamples, z \in ChannelSamples}
    \cup {ColorRGBA(10, 100, 110, 111)}

PaletteColors == {ColorNamed("Black"), ColorNamed("White"), ColorRGB(2, 10, 255)}
Palettes == UNION {SeqsOfLen(PaletteColors, n) : n \in 0..MaxPalette}
OptionOf(S) == {None} \cup {Some(x) : x \in S}
Autos ==
    {Auto(m, n, d, p) :
        m \in OptionOf({"Border", "Predominant", "BorderContrast", "PredominantContrast",
                        "PredominantGradient", "PredominantGradientContrast",
                        "BorderGradient", "BorderGradientContrast"}),
        n \in OptionOf({"Two", "Four"}),
        d \in OptionOf({"Horizontal", "Vertical", "DiagonalDesc", "DiagonalAsc"}),
        p \in OptionOf(Palettes)}

BackgroundInit ==
    /\ arg \in {Some([type |-> "Color", value |-> c]) : c \in Colors}
            \cup {Some([type |-> "Auto", value |-> a]) : a \in Autos}
            \cup {Some([type |-> "Background", value |-> BackgroundColor(c)]) :
                    c \in PaletteColors \cup {ColorRGBA(10, 100, 110, 111)}}
            \cup {Some([type |-> "Background", value |-> BackgroundAuto(a)]) : a \in Autos}
    /\ rendered = None
    /\ image = None
    /\ url = None
    /\ result = None
    /\ calls = << >>
    /\ last_set = None
    /\ UploadIdle

\* rendered = color.to_string()
RenderColor ==
    /\ Unwrap(arg).type = "Color"
    /\ rendered' = Some(ColorToString(Unwrap(arg).value))
    /\ UNCHANGED <<image, url, result, calls, last_set, arg>>
    /\ UNCHANGED upload_vars

\* rendered = auto.to_string()
RenderAuto ==
    /\ Unwrap(arg).type = "Auto"
    /\ rendered' = Some(AutoToString(Unwrap(arg).value))
    /\ UNCHANGED <<image, url, result, calls, last_set, arg>>
    /\ UNCHANGED upload_vars

\* rendered = background.to_string()
RenderBackground ==
    /\ Unwrap(arg).type = "Background"
    /\ rendered' = Some(BackgroundToString(Unwrap(arg).value))
    /\ UNCHANGED <<image, url, result, calls, last_set, arg>>
    /\ UNCHANGED upload_vars

BackgroundNext == RenderColor \/ RenderAuto \/ RenderBackground

BackgroundSpec == BackgroundInit /\ [][BackgroundNext]_vars

(***************************************************************************)
(* The upload parameter state machine: one Transformation or Eager         *)
(* parameter is rendered with get_pair(), and its transformations are      *)
(* added, in order, to the image ("test", "path/name") that is built.      *)
(***************************************************************************)
\* the transformations of the tests eager and transformation, and ones
\* with an aspect ratio, a background and a gravity
ParameterTransformations ==
    { Crop(Fill(1, 2, None)),
      Pad(PadBoth(3, 4, None, None)),
      Resize(ScaleByWidth(100, Some(AspectRatioSides(16, 9)), None)),
      Crop(FillByHeight(100, Some(AspectRatioResult(5)), Some("NorthEast"))),
      Pad(PadByWidth(100, None, Some(BackgroundAuto(FixtureAuto)), Some("Center"))) }
ParameterVecs == UNION {SeqsOfLen(ParameterTransformations, n) : n \in 0..MaxTransformations}

ParameterInit ==
    /\ parameter \in {Some(Transformation(vec)) : vec \in ParameterVecs}
                        \cup {Some(Eager(vec)) : vec \in ParameterVecs}
    /\ pair = None
    /\ image = Some(ImageNew("test", "path/name"))
    /\ url = None
    /\ result = None
    /\ calls = << >>
    /\ last_set = None
    /\ arg = None
    /\ rendered = None
    /\ options = UploadOptionsNew
    /\ before = UploadOptionsNew
    /\ call = None
    /\ hashed = None
    /\ form = None
    /\ HistoryIdle

\* pair = parameter.get_pair()
GetPair ==
    /\ IsSome(parameter)
    /\ pair' = Some(OptionalParametersGetPair(Unwrap(parameter)))
    /\ UNCHANGED <<image, url, result, calls, last_set, arg, rendered>>
    /\ UNCHANGED <<options, before, call, hashed, form, parameter>>
    /\ UNCHANGED history_vars

\* the next transformation of the parameter is added to the image
AddNextTransformation ==
    /\ IsSome(parameter)
    /\ IsSome(image)
    /\ Len(Unwrap(image).transformations) < Len(Unwrap(parameter).vec)
    /\ AddTransformation(Unwrap(parameter).vec[Len(Unwrap(image).transformations) + 1])

ParameterNext ==
    \/ GetPair
    \/ AddNextTransformation
    \/ Build

ParameterSpec == ParameterInit /\ [][ParameterNext]_vars

(***************************************************************************)
(* The upload options state machine: the caller starts from                *)
(* UploadOptions::new(), calls setters, and has the form data built by     *)
(* Upload::new("api_key", "cloud_name", "api_secret").                     *)
(***************************************************************************)
TheUpload == UploadNew("api_key", "cloud_name", "api_secret")

\* the values handed to the setters
Folders == {"folder", "f"}
UploadPresets == {"upload_preset"}
SetDeliveryTypes == {"Private"}
SetAccessModes == {"Public"}
SetPublicIds == {"public_id"}
Booleans == {FALSE, TRUE}
SetResourceTypes == {"Image"}
SetTransformations == {"c_fill,w_1,h_2/c_pad,w_3,h_4"}
\* the values of Utc::now().timestamp_millis().to_string()
Timestamps == {"1640995200000", "1640995200001"}

UploadInit ==
    /\ options = UploadOptionsNew
    /\ before = UploadOptionsNew
    /\ call = None
    /\ hashed = None
    /\ form = None
    /\ parameter = None
    /\ pair = None
    /\ image = None
    /\ url = None
    /\ result = None
    /\ calls = << >>
    /\ last_set = None
    /\ arg = None
    /\ rendered = None
    /\ HistoryIdle

\* options = options.set_X(value): the options before the call and the call
\* are recorded, the form of the earlier options is dropped
SetterCalled(key, value) ==
    /\ options' = Setter(key, options, value)
    /\ before' = options
    /\ call' = Some([key |-> key, value |-> value])
    /\ hashed' = None
    /\ form' = None
    /\ UNCHANGED <<image, url, result, calls, last_set, arg, rendered, parameter, pair>>
    /\ UNCHANGED history_vars

SetFolder(value) == SetterCalled("folder", value)
SetUploadPreset(value) == SetterCalled("upload_preset", value)
SetType(value) == SetterCalled("type", value)
SetAccessMode(value) == SetterCalled("access_mode", value)
SetPublicId(value) == SetterCalled("public_id", value)
SetUseFilename(value) == SetterCalled("use_filename", value)
SetResourceType(value) == SetterCalled("resource_type", value)
SetTransformation(value) == SetterCalled("transformation", value)

\* form = upload.build_form_data(&options), at the time timestamp; it is
\* taken once per value of the options
CallBuildFormData(timestamp) ==
    /\ hashed = None
    /\ LET built == BuildFormData(TheUpload, options, timestamp)
       IN  /\ hashed' = Some(built.hashed)
           /\ form' = Some(built.form)
    /\ UNCHANGED <<image, url, result, calls, last_set, arg, rendered>>
    /\ UNCHANGED <<options, before, call, parameter, pair>>
    /\ UNCHANGED history_vars

UploadNext ==
    \/ \E value \in Folders : SetFolder(value)
    \/ \E value \in UploadPresets : SetUploadPreset(value)
    \/ \E value \in SetDeliveryTypes : SetType(value)
    \/ \E value \in SetAccessModes : SetAccessMode(value)
    \/ \E value \in SetPublicIds : SetPublicId(value)
    \/ \E value \in Booleans : SetUseFilename(value)
    \/ \E value \in SetResourceTypes : SetResourceType(value)
    \/ \E value \in SetTransformations : SetTransformation(value)
    \/ \E timestamp \in Timestamps : CallBuildFormData(timestamp)

UploadSpec == UploadInit /\ [][UploadNext]_vars

(***************************************************************************)
(* The parameter set state machine: parameters are inserted into a         *)
(* BTreeSet<OptionalParameters>, from which the form fields are derived.   *)
(***************************************************************************)
\* the parameters of the tests public_id, overwrite, categorization, eager
\* and transformation, with a second value for public_id
SetParameters ==
    {PublicId("id"), PublicId("image_upload_from_base64"), Overwrite(TRUE)}
    \cup {Categorization(c) : c \in Categorizations}
    \cup {Eager(<<Crop(Fill(1, 2, None)), Pad(PadBoth(3, 4, None, None))>>),
          Transformation(<<Crop(Fill(1, 2, None)), Pad(PadBoth(3, 4, None, None))>>)}

ParameterSetInit ==
    /\ image = None
    /\ url = None
    /\ result = None
    /\ calls = << >>
    /\ last_set = None
    /\ arg = None
    /\ rendered = None
    /\ UploadIdle

\* params.insert(p); the form of the earlier set is dropped
Insert(p) ==
    /\ Len(inserted) < MaxInserts
    /\ params' = BTreeSetInsert(params, p)
    /\ inserted' = Append(inserted, p)
    /\ form' = None
    /\ UNCHANGED <<image, url, result, calls, last_set, arg, rendered>>
    /\ UNCHANGED <<options, before, call, hashed, parameter, pair, accumulated,
                   scan, previous>>

\* the form fields are derived from params, once per value of the set
DeriveForm ==
    /\ form = None
    /\ form' = Some(ParametersForm(params))
    /\ UNCHANGED <<image, url, result, calls, last_set, arg, rendered>>
    /\ UNCHANGED <<options, before, call, hashed, parameter, pair>>
    /\ UNCHANGED history_vars

ParameterSetNext ==
    \/ \E p \in SetParameters : Insert(p)
    \/ DeriveForm

ParameterSetSpec == ParameterSetInit /\ [][ParameterSetNext]_vars

(***************************************************************************)
(* The repeated rendering state machine: to_string() is called on one      *)
(* transformation and build() on one image, any number of times and in any *)
(* order; every call is recorded with the value it was called on.          *)
(***************************************************************************)
\* fmt(&self, ..) of Display for Transformations: self is a shared
\* reference, the value is the same after the call
TransformationsAfterToString(t) == t

\* build() with the transformations moved out of the RefCell
ImageAfterBuild_TransformationsTaken(img) == [img EXCEPT !.transformations = << >>]

\* build(&self): self is a shared reference and the RefCell of the
\* transformations is only borrow()ed, the value is the same after the call
ImageAfterBuild(img) == img

PurityInit ==
    /\ image \in {Some([ImageNew("test", "path/name") EXCEPT
                            !.transformations = vec, !.format = format]) :
                    vec \in ParameterVecs, format \in {None, Some("png")}}
    /\ arg \in {Some(t) : t \in ParameterTransformations}
    /\ url = None
    /\ rendered = None
    /\ result = None
    /\ calls = << >>
    /\ last_set = None
    /\ UploadIdle

\* rendered = arg.to_string()
CallToString ==
    /\ Len(previous) < MaxCalls
    /\ rendered' = Some(TransformationsToString(Unwrap(arg)))
    /\ arg' = Some(TransformationsAfterToString(Unwrap(arg)))
    /\ previous' = Append(previous, [op |-> "to_string", value |-> Unwrap(arg),
                                     out |-> TransformationsToString(Unwrap(arg))])
    /\ UNCHANGED <<image, url, result, calls, last_set>>
    /\ UNCHANGED <<options, before, call, hashed, form, parameter, pair>>
    /\ UNCHANGED <<params, inserted, accumulated, scan>>

\* url = image.build()
CallBuild ==
    /\ Len(previous) < MaxCalls
    /\ url' = Some(ImageBuild(Unwrap(image)))
    /\ image' = Some(ImageAfterBuild(Unwrap(image)))
    /\ previous' = Append(previous, [op |-> "build", value |-> Unwrap(image),
                                     out |-> ImageBuild(Unwrap(image))])
    /\ UNCHANGED <<arg, rendered, result, calls, last_set>>
    /\ UNCHANGED <<options, before, call, hashed, form, parameter, pair>>
    /\ UNCHANGED <<params, inserted, accumulated, scan>>

PurityNext ==
    \/ CallToString
    \/ CallBuild

PuritySpec == PurityInit /\ [][PurityNext]_vars

(***************************************************************************)
(* The parser loop state machine: Image::try_from(url) is followed one     *)
(* path segment at a time; scan holds the Url moved into try_from, the     *)
(* position of the loop, its locals st and the locals prev it had before   *)
(* the latest segment. The caller then unwraps the image, may set a format *)
(* and builds it.                                                          *)
(***************************************************************************)
\* segments that are or resemble a version or a transformation, and public
\* id segments
ScannedSegments ==
    {"v1234567890", "v123456789", "v12345678901", "v123456789x", "w_1", "_x",
     "abc_d", "abcd_e", "name.jpg"}

\* delivery URLs of cloud 'i' with up to MaxScan segments after 'upload',
\* and the URLs of the tests from_url_with_transformations and replace_format
ScannedUrls ==
    {UrlParse("res.cloudinary.com", "/" \o Join(<<"i", "image", "upload">> \o rest, "/")) :
        rest \in UNION {SeqsOfLen(ScannedSegments, n) : n \in 0..MaxScan}}
    \cup {UrlParse("res.cloudinary.com",
                   "/i/image/upload/c_scale,h_800,q_auto/v1233456678/path/name.jpg"),
          UrlParse("res.cloudinary.com",
                   "/i/image/upload/c_scale,h_800,q_auto/path/name.jpg")}

\* the locals of try_from before the loop
LoopStart ==
    [err |-> None, cloud_name |-> None, public_id_parts |-> << >>,
     public_id_teritory |-> FALSE]

ScanInit ==
    /\ url \in {Some(u) : u \in ScannedUrls}
    /\ scan = Some([url |-> Unwrap(url), pos |-> 0, st |-> LoopStart, prev |-> LoopStart])
    /\ image = None
    /\ result = None
    /\ calls = << >>
    /\ last_set = None
    /\ arg = None
    /\ rendered = None
    /\ options = UploadOptionsNew
    /\ before = UploadOptionsNew
    /\ call = None
    /\ hashed = None
    /\ form = None
    /\ parameter = None
    /\ pair = None
    /\ params = {}
    /\ inserted = << >>
    /\ accumulated = {}
    /\ previous = << >>

\* one iteration of the for loop: the segment at position pos is matched
ScanSegment ==
    LET segs == Unwrap(UrlPathSegments(Unwrap(scan).url))
        pos == Unwrap(scan).pos
        st == Unwrap(scan).st
    IN  /\ result = None
        /\ image = None
        /\ pos < Len(segs)
        /\ ~IsSome(st.err)
        /\ scan' = Some([url |-> Unwrap(scan).url,
                         pos |-> pos + 1,
                         st |-> ScanSegments(SubSeq(segs, 1, pos + 1), pos, st),
                         prev |-> st])
        /\ UNCHANGED <<image, url, result, calls, last_set, arg, rendered>>
        /\ UNCHANGED <<options, before, call, hashed, form, parameter, pair>>
        /\ UNCHANGED <<params, inserted, accumulated, previous>>

\* the loop has ended: try_from returns
FinishScan ==
    LET segs == Unwrap(UrlPathSegments(Unwrap(scan).url))
    IN  /\ result = None
        /\ image = None
        /\ Unwrap(scan).pos = Len(segs) \/ IsSome(Unwrap(scan).st.err)
        /\ result' = Some(TryFrom(Unwrap(scan).url))
        /\ UNCHANGED <<image, url, calls, last_set, arg, rendered>>
        /\ UNCHANGED upload_vars

ScanNext ==
    \/ ScanSegment
    \/ FinishScan
    \/ UnwrapResult
    \/ \E format \in Formats : SetFormat(format)
    \/ Build

ScanSpec == ScanInit /\ [][ScanNext]_vars

(***************************************************************************)
(* The tags state machine: a caller starts from UploadOptions::new() and   *)
(* calls add_tags and remove_tags with slices of tags; accumulated is the  *)
(* set of the tags added and not removed since.                            *)
(***************************************************************************)
Tags == {"foo", "bar", "baz"}

\* the slices handed to add_tags and remove_tags: the empty slice, one tag,
\* two tags (also the same tag twice)
TagSlices == {<< >>} \cup {<<t>> : t \in Tags} \cup {<<t, u>> : t \in Tags, u \in Tags}

TagsInit ==
    /\ options = UploadOptionsNew
    /\ before = UploadOptionsNew
    /\ call = None
    /\ accumulated = {}
    /\ hashed = None
    /\ form = None
    /\ parameter = None
    /\ pair = None
    /\ image = None
    /\ url = None
    /\ result = None
    /\ calls = << >>
    /\ last_set = None
    /\ arg = None
    /\ rendered = None
    /\ params = {}
    /\ inserted = << >>
    /\ scan = None
    /\ previous = << >>

\* options = options.add_tags(tags)
CallAddTags(tags) ==
    /\ options' = AddTags(options, tags)
    /\ before' = options
    /\ call' = Some([key |-> "add_tags", value |-> tags])
    /\ accumulated' = accumulated \cup Elements(tags)
    /\ UNCHANGED <<image, url, result, calls, last_set, arg, rendered>>
    /\ UNCHANGED <<hashed, form, parameter, pair>>
    /\ UNCHANGED <<params, inserted, scan, previous>>

\* options = options.remove_tags(tags)
CallRemoveTags(tags) ==
    /\ options' = RemoveTags(options, tags)
    /\ before' = options
    /\ call' = Some([key |-> "remove_tags", value |-> tags])
    /\ accumulated' = accumulated \ Elements(tags)
    /\ UNCHANGED <<image, url, result, calls, last_set, arg, rendered>>
    /\ UNCHANGED <<hashed, form, parameter, pair>>
    /\ UNCHANGED <<params, inserted, scan, previous>>

TagsNext ==
    \/ \E tags \in TagSlices : CallAddTags(tags)
    \/ \E tags \in TagSlices : CallRemoveTags(tags)

TagsSpec == TagsInit /\ [][TagsNext]_vars

(***************************************************************************)
(* Vocabulary of the properties.                                           *)
(***************************************************************************)
\* the number of positions of s at which p occurs
Occurrences(s, p) == Cardinality({i \in 1..Len(s) : StartsWithAt(s, p, i)})

\* no character of s is rewritten by the URL path serialisation
NoEncodedChar(s) == \A i \in 1..Len(s) : CharAt(s, i) \notin DOMAIN PathEncodeTable \cup {"\\"}

\* no '/'-separated segment of s is a dot segment
NoDotSegment(s) ==
    LET v == Split(s, "/")
    IN  \A k \in 1..Len(v) : ~IsSingleDot(v[k]) /\ ~IsDoubleDot(v[k])

\* a cloud name and public id that the URL path serialisation leaves as they are
PlainIdentity(img) ==
    /\ img.cloud_name # ""
    /\ ~StartsWithAt(img.cloud_name, "/", 1)
    /\ NoEncodedChar(img.cloud_name) /\ NoDotSegment(img.cloud_name)
    /\ NoEncodedChar(img.public_id) /\ NoDotSegment(img.public_id)

\* the image the caller holds has been built: url is the value of build()
Built == IsSome(image) /\ IsSome(url)

\* 't1/.../tn/' for the image's transformation list, "" when it is empty
RenderedSegments(img) ==
    LET n == Len(img.transformations)
    IN  Join([i \in 1..n |-> TransformationsToString(img.transformations[i]) \o "/"], "")

DeliveryPrefix == "https://res.cloudinary.com/"

(***************************************************************************)
(* C1 as stated: for every Image with no format set, build() returns       *)
(* https://res.cloudinary.com/N/image/upload/ followed by the rendered     *)
(* segments 't1/.../tn/' (nothing when n = 0) followed by the public id P  *)
(* exactly as given, including any extension P carries.                    *)
(***************************************************************************)
C1_LiteralPublicId ==
    (Built /\ Unwrap(image).format = None) =>
        UrlAsStr(Unwrap(url)) =
            DeliveryPrefix \o Unwrap(image).cloud_name \o "/image/upload/"
                \o RenderedSegments(Unwrap(image)) \o Unwrap(image).public_id

(***************************************************************************)
(* C1 amended: the same, for a non-empty cloud name N and a public id P    *)
(* that hold no character the URL path serialisation rewrites (a character *)
(* of the path percent-encode set such as ' ', '?' or '#', a backslash)    *)
(* and no '.' or '..' path segment; N does not start with '/'.             *)
(***************************************************************************)
C1_LiteralPlainPublicId ==
    (Built /\ Unwrap(image).format = None /\ PlainIdentity(Unwrap(image))) =>
        UrlAsStr(Unwrap(url)) =
            DeliveryPrefix \o Unwrap(image).cloud_name \o "/image/upload/"
                \o RenderedSegments(Unwrap(image)) \o Unwrap(image).public_id

\* C1 witness: an image with two transformations and a public id that
\* carries an extension has been built without a format
C1_Witness ==
    /\ Built
    /\ Unwrap(image).format = None
    /\ Unwrap(image).public_id = "path/name.jpg"
    /\ Len(Unwrap(image).transformations) = 2
    /\ PlainIdentity(Unwrap(image))


\* the public id with the text after the last '.' of its last segment removed
WithoutExtension(public_id) ==
    LET slash == LastIndexOf(public_id, "/")
        dot == LastIndexOf(public_id, ".")
    IN  IF dot > slash THEN SubSeq(public_id, 1, dot - 1) ELSE public_id

\* the file name of the image occurs once in its unformatted path
FileNameOccursOnce(img) ==
    /\ FileName(img.public_id) # ""
    /\ Occurrences(ImagePath(img), FileName(img.public_id)) = 1

PlainDeliveryUrl(u) ==
    LET segs == Unwrap(UrlPathSegments(u))
    IN  /\ UrlHostStr(u) = Some("res.cloudinary.com")
        /\ IsSome(UrlPathSegments(u))
        /\ Len(segs) >= 4
        /\ segs[1] # ""
        /\ segs[2] = "image"
        /\ segs[3] = "upload"
        /\ \A k \in 4..Len(segs) :
              /\ segs[k] # ""
              /\ ~IsVersion(segs[k])
              /\ ~IsTransformation(segs[k])
        /\ Contains(segs[Len(segs)], ".")

\* try_from has been applied to a URL handed in from outside
Parsed == image = None /\ IsSome(url) /\ IsSome(result)

(***************************************************************************)
(* C3 as stated: for a delivery URL with an extension on its last segment, *)
(* no version and no transformation segments, try_from succeeds and the    *)
(* resulting image renders (to_string / build) to exactly the input URL,   *)
(* also when the final segment holds several dots.  Stated for URLs whose  *)
(* final segment, less its extension, occurs once in the path.             *)
(***************************************************************************)
C3_ParsedImageRendersInput ==
    (Parsed /\ PlainDeliveryUrl(Unwrap(url))) =>
        /\ Unwrap(result).tag = "Ok"
        /\ FileNameOccursOnce(Unwrap(result).image) =>
               ImageToString(Unwrap(result).image) = UrlAsStr(Unwrap(url))

\* an identity whose parts hold no '/', no '.', no reserved character and
\* nothing the parser reads as a version or a transformation
UnambiguousIdentity(img) ==
    /\ PlainIdentity(img)
    /\ img.public_id # ""
    /\ ~Contains(img.cloud_name, "/") /\ ~Contains(img.cloud_name, ".")
    /\ ~Contains(img.public_id, "/") /\ ~Contains(img.public_id, ".")
    /\ ~IsVersion(img.public_id) /\ ~IsTransformation(img.public_id)

(***************************************************************************)
(* C4 as stated: building a URL from an identity (cloud name, public id,   *)
(* format) with no transformations and parsing it back yields the same     *)
(* identity.                                                               *)
(***************************************************************************)
C4_RoundTrip ==
    (/\ Built
     /\ IsSome(result)
     /\ Unwrap(image).transformations = <<>>
     /\ UnambiguousIdentity(Unwrap(image))) =>
        /\ Unwrap(result).tag = "Ok"
        /\ Unwrap(result).image.cloud_name = Unwrap(image).cloud_name
        /\ Unwrap(result).image.public_id = Unwrap(image).public_id
        /\ Unwrap(result).image.format = Unwrap(image).format

(***************************************************************************)
(* C5 as stated: the transformation segments of the built URL appear in    *)
(* call order, exactly one '/'-delimited segment per add_transformation    *)
(* call, directly after 'upload'; adding equal transformations twice gives *)
(* two repeated segments.  Stated for identities the URL serialisation     *)
(* leaves alone, cloud names without '/' and non-empty file names.         *)
(***************************************************************************)
C5_SegmentsInCallOrder ==
    (/\ Built
     /\ PlainIdentity(Unwrap(image))
     /\ FileName(Unwrap(image).public_id) # ""
     /\ ~Contains(Unwrap(image).cloud_name, "/")) =>
        LET segs == Unwrap(UrlPathSegments(Unwrap(url)))
            n == Len(calls)
        IN  /\ Len(segs) >= 3 + n
            /\ \A i \in 1..n : segs[3 + i] = TransformationsToString(calls[i])

(***************************************************************************)
(* C6 as stated: set_format may be called repeatedly and the last value    *)
(* wins: for a public id whose final segment holds no '.', after the last  *)
(* set_format(F) get_format() is Some(F) and the built URL ends with       *)
(* '<public id>.<F>', the extension appearing exactly once; also for an    *)
(* image obtained by parsing a URL that carried an extension.              *)
(***************************************************************************)
C6_LastFormatOnce ==
    (/\ Built
     /\ IsSome(last_set)
     /\ PlainIdentity(Unwrap(image))
     /\ FileName(Unwrap(image).public_id) # ""
     /\ ~Contains(FileName(Unwrap(image).public_id), ".")) =>
        /\ ImageGetFormat(Unwrap(image)) = last_set
        /\ EndsWith(UrlAsStr(Unwrap(url)),
                    "/" \o Unwrap(image).public_id \o "." \o Unwrap(last_set))
        /\ Occurrences(UrlAsStr(Unwrap(url)), "." \o Unwrap(last_set)) = 1

(***************************************************************************)
(* C10 as stated: parsing a URL whose host is not res.cloudinary.com,      *)
(* a URL with no host included, returns the NotThisService error           *)
(* 'Not a cloudinary url' and never panics.                                *)
(***************************************************************************)
C10_ForeignHostIsError ==
    (Parsed /\ UrlHostStr(Unwrap(url)) # Some("res.cloudinary.com")) =>
        result = Some(Err("Not a cloudinary url"))


\* the tokens of the optional qualifiers: none when the qualifier is absent
BackgroundTokens(o) == IF IsSome(o) THEN <<BackgroundToString(Unwrap(o))>> ELSE << >>
AspectRatioTokens(o) == IF IsSome(o) THEN <<AspectRatioToString(Unwrap(o))>> ELSE << >>
GravityTokens(o) == IF IsSome(o) THEN <<GravityToString(Unwrap(o))>> ELSE << >>

\* to_string() has been applied to a transformation of the given kind
RenderedKind(kind) == IsSome(rendered) /\ IsSome(arg) /\ Unwrap(arg).kind = kind

\* the tokens of a pad mode in the order C7 states
PadTokens(m) ==
    BackgroundTokens(m.background)
    \o (IF m.tag = "Pad" THEN << >> ELSE AspectRatioTokens(m.ar))
    \o <<"c_pad">>
    \o GravityTokens(m.gravity)
    \o (IF m.tag = "PadByWidth" THEN <<"w_" \o U32ToString(m.width)>>
        ELSE IF m.tag = "PadByHeight" THEN <<"h_" \o U32ToString(m.height)>>
        ELSE <<"w_" \o U32ToString(m.width), "h_" \o U32ToString(m.height)>>)

FixturePad ==
    Pad(PadByWidth(100, Some(AspectRatioSides(16, 9)),
                   Some(BackgroundAuto(FixtureAuto)), Some("North")))

(***************************************************************************)
(* C7: PadByWidth and PadByHeight render exactly                           *)
(* '<b_background>,<aspect ratio>,c_pad,<g_gravity>,<w_W or h_H>' in that  *)
(* order, an absent qualifier being omitted together with its comma; Pad   *)
(* with both dimensions renders '<b_background>,c_pad,<g_gravity>,w_W,h_H'.*)
(* Background auto/border_gradient/4/vertical/palette[black,white] with ar *)
(* 16:9, gravity North and width 100 renders                               *)
(* 'b_auto:border_gradient:4:vertical:palette_black_white,ar_16:9,c_pad,   *)
(* g_north,w_100'.                                                         *)
(***************************************************************************)
C7_PadQualifierOrder ==
    RenderedKind("Pad") =>
        /\ Unwrap(rendered) = Join(PadTokens(Unwrap(arg).mode), ",")
        /\ Unwrap(arg) = FixturePad =>
              Unwrap(rendered) =
                "b_auto:border_gradient:4:vertical:palette_black_white,ar_16:9,c_pad,g_north,w_100"

\* C7 witness: the pad mode with all four qualifiers has been rendered
C7_Witness == RenderedKind("Pad") /\ Unwrap(arg) = FixturePad

\* to_string() has been applied to a crop or pad mode that carries a gravity
RenderedWithGravity ==
    /\ IsSome(rendered) /\ IsSome(arg)
    /\ Unwrap(arg).kind \in {"Crop", "Pad"}
    /\ IsSome(Unwrap(arg).mode.gravity)

(***************************************************************************)
(* C8 as stated: for every Crop and Pad variant that carries a gravity the *)
(* gravity token is a trailing qualifier, after the mode token and its     *)
(* dimension token(s): nothing follows the gravity token in the segment.   *)
(***************************************************************************)
C8_GravityTrails ==
    RenderedWithGravity =>
        EndsWith(Unwrap(rendered), "," \o GravityToString(Unwrap(Unwrap(arg).mode.gravity)))

(***************************************************************************)
(* C8 amended: for every Crop and Pad variant that carries a gravity the   *)
(* gravity token directly follows the mode token and precedes the          *)
(* dimension token(s): the segment has the shape                           *)
(* '{background,}{aspect_ratio,}{mode},{gravity},{dimension}', so only the *)
(* dimension tokens follow the gravity token.                              *)
(***************************************************************************)
C8_GravityAfterMode ==
    RenderedWithGravity =>
        LET tokens == Split(Unwrap(rendered), ",")
            n == Len(tokens)
            modes == {k \in 1..n : tokens[k] \in {"c_fill", "c_pad"}}
            k == Least(modes)
        IN  /\ Cardinality(modes) = 1
            /\ k + 1 < n
            /\ tokens[k + 1] = GravityToString(Unwrap(Unwrap(arg).mode.gravity))
            /\ \A j \in (k + 2)..n :
                  StartsWithAt(tokens[j], "w_", 1) \/ StartsWithAt(tokens[j], "h_", 1)
            /\ \A j \in 1..(k - 1) :
                  \/ StartsWithAt(tokens[j], "b_", 1)
                  \/ StartsWithAt(tokens[j], "ar_", 1)
                  \/ tokens[j] = "fl_ignore_aspect_ratio"

\* C8 witness: a crop mode with an aspect ratio and a gravity has been rendered
C8_Witness ==
    /\ RenderedWithGravity
    /\ Unwrap(arg) = Crop(FillByWidth(100, Some(AspectRatioSides(16, 9)), Some("AutoClassic")))
    /\ Unwrap(rendered) = "ar_16:9,c_fill,g_auto:classic,w_100"

\* the tokens of a resize mode in the order C9 states
ResizeTokens(m) ==
    (IF m.tag = "Scale" THEN << >> ELSE AspectRatioTokens(m.ar))
    \o <<"c_scale">>
    \o (IF m.tag = "ScaleByWidth" THEN <<"w_" \o U32ToString(m.width)>>
        ELSE IF m.tag = "ScaleByHeight" THEN <<"h_" \o U32ToString(m.height)>>
        ELSE <<"w_" \o U32ToString(m.width), "h_" \o U32ToString(m.height)>>)
    \o (IF IsSome(m.liquid) THEN <<"g_liquid">> ELSE << >>)

FixtureResize ==
    Resize(ScaleByWidth(100, Some(AspectRatioSides(16, 9)), Some(<< >>)))

(***************************************************************************)
(* C9: every ResizeMode renders as the aspect-ratio token plus ',' (only   *)
(* when an aspect ratio is present), then 'c_scale,', then 'w_W', 'h_H' or *)
(* 'w_W,h_H', then ',g_liquid' exactly when the liquid flag is present;    *)
(* aspect ratio 16:9 with liquid gives 'ar_16:9,c_scale,w_100,g_liquid',   *)
(* and the image ('test', 'path/name') with that transformation builds to  *)
(* https://res.cloudinary.com/test/image/upload/                           *)
(* ar_16:9,c_scale,w_100,g_liquid/path/name.                               *)
(***************************************************************************)
C9_ResizeRendering ==
    /\ RenderedKind("Resize") =>
          /\ Unwrap(rendered) = Join(ResizeTokens(Unwrap(arg).mode), ",")
          /\ Unwrap(arg) = FixtureResize =>
                Unwrap(rendered) = "ar_16:9,c_scale,w_100,g_liquid"
    /\ (Built /\ calls = <<FixtureResize>>) =>
          UrlAsStr(Unwrap(url)) =
            "https://res.cloudinary.com/test/image/upload/ar_16:9,c_scale,w_100,g_liquid/path/name"

\* C9 witness: the resize mode with aspect ratio and liquid has been
\* rendered, added once to the image and built
C9_Witness ==
    /\ RenderedKind("Resize")
    /\ Unwrap(arg) = FixtureResize
    /\ Built
    /\ calls = <<FixtureResize>>


\* try_from has been applied to a URL of the delivery host; its path segments
ParsedDelivery == Parsed /\ UrlHostStr(Unwrap(url)) = Some("res.cloudinary.com")
Segments == Unwrap(UrlPathSegments(Unwrap(url)))

(***************************************************************************)
(* C11: if the host check passes and path segment 1 exists and is not      *)
(* exactly 'image', parsing fails with 'Only image is supported', whatever *)
(* the later segments are.                                                 *)
(***************************************************************************)
C11_OnlyImageIsSupported ==
    (ParsedDelivery /\ Len(Segments) >= 2 /\ Segments[2] # "image") =>
        result = Some(Err("Only image is supported"))

\* C11 witness: a URL whose segment 1 is 'video' and whose segment 2 is not a
\* delivery type either has been parsed
C11_Witness ==
    /\ ParsedDelivery
    /\ Len(Segments) >= 4
    /\ Segments[2] = "video"
    /\ Segments[3] = "raw"

\* the delivery types C12 lists
ListedDeliveryTypes ==
    {"upload", "fetch", "private", "authenticated", "sprite", "facebook", "twitter",
     "youtube", "vimeo"}

\* the public id of img, with its format if any, is the '/'-joined tail of
\* the segments that starts at some segment after the first `after`
PublicIdFromSegmentsAfter(img, segs, after) ==
    \E k \in (after + 1)..Len(segs) :
        Join(SubSeq(segs, k, Len(segs)), "/") =
            img.public_id \o (IF IsSome(img.format) THEN "." \o Unwrap(img.format) ELSE "")

(***************************************************************************)
(* C12: if path segment 2 is present it must be one of upload, fetch,      *)
(* private, authenticated, sprite, facebook, twitter, youtube, vimeo,      *)
(* otherwise parsing fails with 'Invalid mode'; an accepted segment 2 is   *)
(* never part of the public id, which is made of later segments only; and  *)
(* a URL that has no segment 2 is not rejected with 'Invalid mode'.        *)
(***************************************************************************)
C12_DeliveryMode ==
    ParsedDelivery =>
        /\ (/\ Len(Segments) >= 3
            /\ Segments[2] = "image"
            /\ Segments[3] \notin ListedDeliveryTypes) =>
                result = Some(Err("Invalid mode"))
        /\ Unwrap(result).tag = "Ok" =>
                /\ Segments[3] \in ListedDeliveryTypes
                /\ PublicIdFromSegmentsAfter(Unwrap(result).image, Segments, 3)
        /\ Len(Segments) < 3 => result # Some(Err("Invalid mode"))

\* C12 witness: a URL with the unlisted delivery type 'raw' and later
\* segments has been parsed and rejected
C12_Witness ==
    /\ ParsedDelivery
    /\ Len(Segments) >= 4
    /\ Segments[2] = "image"
    /\ Segments[3] = "raw"
    /\ result = Some(Err("Invalid mode"))

(***************************************************************************)
(* C13: on a successful parse the format is exactly the text after the     *)
(* LAST '.' of the final segment and that text with its dot is not part of *)
(* the public id; dots in earlier segments and earlier dots of the final   *)
(* segment stay in the public id ('.../upload/ar_0.5,foo/1.2.jpg' gives    *)
(* public id '1.2', format 'jpg'); when the final segment holds no '.',    *)
(* the format is None.                                                     *)
(***************************************************************************)
C13_FormatAfterLastDot ==
    (ParsedDelivery /\ Unwrap(result).tag = "Ok") =>
        LET img == Unwrap(result).image
            final == Segments[Len(Segments)]
            dot == LastIndexOf(final, ".")
            stem == SubSeq(final, 1, dot - 1)
        IN  /\ dot = 0 =>
                /\ img.format = None
                /\ \E k \in 4..Len(Segments) :
                      img.public_id = Join(SubSeq(Segments, k, Len(Segments)), "/")
            /\ dot > 0 =>
                /\ img.format = Some(SubSeq(final, dot + 1, Len(final)))
                /\ \E k \in 4..Len(Segments) :
                      img.public_id =
                        Join(SubSeq(Segments, k, Len(Segments) - 1) \o <<stem>>, "/")
            /\ UrlAsStr(Unwrap(url))
                    = "https://res.cloudinary.com/test/image/upload/ar_0.5,foo/1.2.jpg" =>
                img.public_id = "1.2" /\ img.format = Some("jpg")

\* C13 witness: the URL of the test from_url_with_dots_in_public_id has been
\* parsed
C13_Witness ==
    /\ ParsedDelivery
    /\ UrlAsStr(Unwrap(url)) = "https://res.cloudinary.com/test/image/upload/ar_0.5,foo/1.2.jpg"
    /\ Unwrap(result).tag = "Ok"

\* segs from position `from` on holds no public id segment: transformation
\* segments only, ended by at most one version segment
NoPublicIdSegment(segs, from) ==
    \A k \in from..Len(segs) :
        \/ IsTransformation(segs[k]) /\ ~IsVersion(segs[k])
        \/ IsVersion(segs[k]) /\ k = Len(segs)

(***************************************************************************)
(* C14: if the host, segment 1 and segment 2 checks pass and no segment is *)
(* classified as part of the public id (there are no segments after        *)
(* segment 2, or only transformation segments ended by at most one version *)
(* segment), parsing fails with 'no public_id is found' and returns no     *)
(* image.                                                                  *)
(***************************************************************************)
C14_NoPublicIdIsFound ==
    (/\ ParsedDelivery
     /\ Len(Segments) >= 3
     /\ Segments[2] = "image"
     /\ Segments[3] \in ListedDeliveryTypes
     /\ NoPublicIdSegment(Segments, 4)) =>
        result = Some(Err("no public_id is found"))

\* C14 witness: a URL whose segments after the delivery type are a
\* transformation and a version has been parsed
C14_Witness ==
    /\ ParsedDelivery
    /\ Len(Segments) = 5
    /\ Segments[2] = "image"
    /\ Segments[3] = "upload"
    /\ IsTransformation(Segments[4])
    /\ IsVersion(Segments[5])
    /\ result = Some(Err("no public_id is found"))

(***************************************************************************)
(* C15 as stated: every image returned by a successful parse has a         *)
(* non-empty cloud name and a non-empty public id, also for URLs with      *)
(* empty path segments such as '.../image/upload/' or '//' in the position *)
(* of the cloud name.                                                      *)
(***************************************************************************)
C15_ParsedIdentityNonEmpty ==
    (ParsedDelivery /\ Unwrap(result).tag = "Ok") =>
        /\ Unwrap(result).image.cloud_name # ""
        /\ Unwrap(result).image.public_id # ""


\* to_string() has been applied to a value of the given type
RenderedType(type) == IsSome(rendered) /\ IsSome(arg) /\ Unwrap(arg).type = type

\* ':' and the token of a sub-field that is present, nothing otherwise
ModePart(auto) ==
    IF IsSome(auto.mode) THEN ":" \o AutoModesToString(Unwrap(auto.mode)) ELSE ""
NumberPart(auto) ==
    IF IsSome(auto.number) THEN ":" \o NumberToString(Unwrap(auto.number)) ELSE ""
DirectionPart(auto) ==
    IF IsSome(auto.direction) THEN ":" \o DirectionToString(Unwrap(auto.direction)) ELSE ""
PalettePart(auto) ==
    LET palette == Unwrap(auto.palette)
    IN  IF IsSome(auto.palette)
        THEN ":palette_" \o Join([i \in 1..Len(palette) |-> ColorToString(palette[i])], "_")
        ELSE ""
AutoExpected(auto) ==
    "auto" \o ModePart(auto) \o NumberPart(auto) \o DirectionPart(auto) \o PalettePart(auto)

(***************************************************************************)
(* C16: Background Auto renders 'auto' followed by the sub-fields that are *)
(* present among mode, number, direction, palette, always in that order    *)
(* and each preceded by ':'; the palette renders as 'palette_' plus its    *)
(* color tokens joined by '_'; with all four absent it renders bare        *)
(* 'auto'; Background prefixes the result, and any plain color, with 'b_'. *)
(***************************************************************************)
C16_AutoRendering ==
    /\ RenderedType("Auto") =>
          /\ Unwrap(rendered) = AutoExpected(Unwrap(arg).value)
          /\ Unwrap(arg).value = Auto(None, None, None, None) => Unwrap(rendered) = "auto"
    /\ RenderedType("Background") =>
          LET b == Unwrap(arg).value
          IN  /\ b.tag = "Auto" => Unwrap(rendered) = "b_" \o AutoExpected(b.v)
              /\ b.tag = "Color" => Unwrap(rendered) = "b_" \o ColorToString(b.v)
              /\ b = BackgroundColor(ColorRGB(2, 10, 255)) => Unwrap(rendered) = "b_rgb:020aff"

\* C16 witness: an Auto with all four sub-fields and a two-color palette of
\* RGB colors has been rendered
C16_Witness ==
    /\ RenderedType("Auto")
    /\ Unwrap(arg).value =
          Auto(Some("BorderGradient"), Some("Four"), Some("Vertical"),
               Some(<<ColorRGB(2, 10, 255), ColorRGB(2, 10, 255)>>))
    /\ Unwrap(rendered) = "auto:border_gradient:4:vertical:palette_rgb:020aff_rgb:020aff"

\* the value of a lowercase hexadecimal digit, 16 for any other character
HexDigitValue(c) ==
    LET hits == {d \in 0..15 : CharAt("0123456789abcdef", d + 1) = c}
    IN  IF hits = {} THEN 16 ELSE CHOOSE d \in hits : TRUE

(***************************************************************************)
(* C17: for all channel values 0..255, Color::RGB(r,g,b) renders 'rgb:'    *)
(* followed by exactly 6 and Color::RGBA(r,g,b,a) 'rgb:' followed by       *)
(* exactly 8 lowercase hexadecimal digits: two zero-padded digits per      *)
(* channel in the order r,g,b(,a), with no separator and no '#'            *)
(* (RGB(2,10,255) gives 'rgb:020aff').                                     *)
(***************************************************************************)
C17_ColorHex ==
    (RenderedType("Color") /\ Unwrap(arg).value.tag \in {"RGB", "RGBA"}) =>
        LET channels == Unwrap(arg).value.ch
            text == Unwrap(rendered)
        IN  /\ StartsWithAt(text, "rgb:", 1)
            /\ Len(text) = 4 + 2 * Len(channels)
            /\ \A i \in 1..Len(channels) :
                  /\ HexDigitValue(CharAt(text, 3 + 2 * i)) < 16
                  /\ HexDigitValue(CharAt(text, 4 + 2 * i)) < 16
                  /\ 16 * HexDigitValue(CharAt(text, 3 + 2 * i))
                        + HexDigitValue(CharAt(text, 4 + 2 * i)) = channels[i]
            /\ Unwrap(arg).value = ColorRGB(2, 10, 255) => text = "rgb:020aff"
            /\ Unwrap(arg).value = ColorRGBA(10, 100, 110, 111) => text = "rgb:0a646e6f"

\* C17 witness: RGB(2, 10, 255), whose first two channels need the zero
\* padding, has been rendered
C17_Witness ==
    /\ RenderedType("Color")
    /\ Unwrap(arg).value = ColorRGB(2, 10, 255)
    /\ Unwrap(rendered) = "rgb:020aff"

\* vocabulary of the upload parameter properties
\* get_pair() has been called, and the image holding the parameter's
\* transformations has been built
ParameterRendered ==
    /\ IsSome(parameter) /\ IsSome(pair) /\ Built
    /\ Unwrap(image).transformations = Unwrap(parameter).vec

\* the URL of an image with no format whose joined transformations are joined
DeliveryUrlWith(img, joined) ==
    DeliveryPrefix \o img.cloud_name \o "/image/upload/"
        \o (IF joined = "" THEN "" ELSE joined \o "/") \o img.public_id

\* the vector of the tests eager and transformation
FixtureVec == <<Crop(Fill(1, 2, None)), Pad(PadBoth(3, 4, None, None))>>

(***************************************************************************)
(* C18: for every transformation sequence, the value of the upload         *)
(* parameter 'transformation' equals the '/'-joined segment string that    *)
(* build() places in the delivery URL path for the same sequence, and the  *)
(* value of 'eager' consists of the same per-transformation segments       *)
(* joined with '|'.                                                        *)
(***************************************************************************)
C18_UploadMatchesDelivery ==
    ParameterRendered =>
        LET p == Unwrap(parameter)
            key == Unwrap(pair)[1]
            value == Unwrap(pair)[2]
            joined == JoinedTransformations(Unwrap(image))
        IN  /\ p.tag = "Transformation" =>
                /\ key = "transformation"
                /\ value = joined
                /\ UrlAsStr(Unwrap(url)) = DeliveryUrlWith(Unwrap(image), value)
                /\ p.vec = FixtureVec => value = "c_fill,w_1,h_2/c_pad,w_3,h_4"
            /\ p.tag = "Eager" =>
                /\ key = "eager"
                /\ Split(value, "|") = Split(joined, "/")
                /\ Len(Split(value, "|")) = IF p.vec = << >> THEN 1 ELSE Len(p.vec)
                /\ UrlAsStr(Unwrap(url))
                        = DeliveryUrlWith(Unwrap(image), Join(Split(value, "|"), "/"))
                /\ p.vec = FixtureVec => value = "c_fill,w_1,h_2|c_pad,w_3,h_4"

\* C18 witness: an eager parameter of two different transformations, one
\* with a background and a gravity, has been rendered and its image built
C18_Witness ==
    /\ ParameterRendered
    /\ Unwrap(parameter).tag = "Eager"
    /\ Len(Unwrap(parameter).vec) = 2
    /\ Unwrap(parameter).vec[1] # Unwrap(parameter).vec[2]
    /\ Unwrap(parameter).vec[2].kind = "Pad"
    /\ Contains(Unwrap(pair)[2], "|")

\* vocabulary of the signature properties
\* build_form_data has returned
FormBuilt == IsSome(hashed) /\ IsSome(form)

\* the value of the form field of the given name
FormField(fields, name) ==
    LET i == CHOOSE j \in 1..Len(fields) : fields[j][1] = name
    IN  fields[i][2]

\* the signed fields: every option but resource_type, and the timestamp
\* that was sent
SignedFields(o, fields) ==
    BTreeMapInsert(BTreeMapRemove(GetMap(o), "resource_type"),
                   "timestamp", FormField(fields, "timestamp"))

(***************************************************************************)
(* C19 as stated: for every set of upload options, the string hashed for   *)
(* the request signature lists all signed fields, the timestamp included,  *)
(* as 'key=value' pairs in ascending key order joined with '&' and         *)
(* directly followed by the API secret, also when an option key sorts      *)
(* after 'timestamp'.  The code appends the timestamp after every option:  *)
(* the statement is violated by set_type(Private), which is hashed as      *)
(* 'type=private&timestamp=...'.                                           *)
(***************************************************************************)
C19_SignedFieldsInKeyOrder ==
    FormBuilt =>
        Unwrap(hashed)
            = JoinedPairs(SignedFields(options, Unwrap(form))) \o TheUpload.api_secret

\* vocabulary of the option properties
\* the options that have a modelled setter
OptionKeys ==
    {"folder", "upload_preset", "type", "access_mode", "public_id", "use_filename",
     "resource_type", "transformation"}

(***************************************************************************)
(* C20: for every UploadOptions setter set_X(v), get_X() afterwards        *)
(* returns Some(v); a later set_X(v2) replaces the value; setting X leaves *)
(* the value returned by every other getter unchanged; and an option that  *)
(* was never set reads None.                                               *)
(***************************************************************************)
C20_SetThenGet ==
    /\ call = None => \A k \in OptionKeys : Getter(k, options) = None
    /\ IsSome(call) =>
        /\ Getter(Unwrap(call).key, options) = Some(Unwrap(call).value)
        /\ \A k \in OptionKeys \ {Unwrap(call).key} :
                Getter(k, options) = Getter(k, before)

\* C20 witness: set_folder replaced a different folder, while use_filename
\* had been set to false and upload_preset had never been set
C20_Witness ==
    /\ IsSome(call)
    /\ Unwrap(call).key = "folder"
    /\ IsSome(Getter("folder", before))
    /\ Getter("folder", before) # Some(Unwrap(call).value)
    /\ Getter("folder", options) = Some(Unwrap(call).value)
    /\ Getter("use_filename", options) = Some(FALSE)
    /\ Getter("upload_preset", options) = None

\* vocabulary of the parameter set properties
\* the form fields have been derived from the set
FormDerived == params # {} /\ IsSome(form)

\* the values of the form fields of the given name
FieldValues(fields, name) == {fields[i][2] : i \in {j \in 1..Len(fields) : fields[j][1] = name}}

\* the add-on names of the documentation of OptionalParameters::Categorization
DocumentedCategorizations ==
    {"google_tagging", "google_video_tagging", "imagga_tagging", "aws_rek_tagging"}

(***************************************************************************)
(* C21 as stated: every Categorizations value renders exactly one of the   *)
(* four documented add-on names google_tagging, google_video_tagging,      *)
(* imagga_tagging, aws_rek_tagging, and distinct variants render distinct  *)
(* names.  The code renders AwsRek as 'auto_tagging'.                      *)
(***************************************************************************)
C21_DocumentedCategorizationNames ==
    FormDerived =>
        /\ \A p \in params :
                p.tag = "Categorization" =>
                    FieldValues(Unwrap(form), "categorization") \subseteq DocumentedCategorizations
        /\ \A c, d \in Categorizations :
                CategorizationsToString(c) = CategorizationsToString(d) => c = d

\* vocabulary of the repeated rendering properties
\* the recorded calls of the given operation
CallsOf(op) == {i \in 1..Len(previous) : previous[i].op = op}

LeadingSegments(u) ==
    LET segs == Unwrap(UrlPathSegments(u))
    IN  SubSeq(segs, 1, Len(segs) - 1)

(***************************************************************************)
(* C23 as stated: setting a format changes only the final path segment of  *)
(* the built URL: the cloud-name segment, the literal 'image/upload',      *)
(* every transformation segment and every folder segment of the public id  *)
(* are identical to those of the same image built without a format, also   *)
(* when the file-name text occurs elsewhere in the path.  Stated for       *)
(* identities the URL serialisation leaves alone and a non-empty file name *)
(* without '.'; the code rewrites every occurrence of the file name.       *)
(***************************************************************************)
C23_FormatChangesOnlyLastSegment ==
    (/\ Built
     /\ IsSome(Unwrap(image).format)
     /\ PlainIdentity(Unwrap(image))
     /\ FileName(Unwrap(image).public_id) # ""
     /\ ~Contains(FileName(Unwrap(image).public_id), ".")) =>
        LeadingSegments(Unwrap(url))
            = LeadingSegments(ImageBuild([Unwrap(image) EXCEPT !.format = None]))

(***************************************************************************)
(* The parser loop, one segment at a time                                  *)
(***************************************************************************)
\* the latest iteration matched a segment after the delivery type
Scanned == IsSome(scan) /\ Unwrap(scan).pos > 3

\* the segment the latest iteration matched
ScannedSegment == Unwrap(UrlPathSegments(Unwrap(scan).url))[Unwrap(scan).pos]

LatchBefore == Unwrap(scan).prev.public_id_teritory
LatchAfter == Unwrap(scan).st.public_id_teritory
PartsBefore == Unwrap(scan).prev.public_id_parts
PartsAfter == Unwrap(scan).st.public_id_parts

\* 'v' followed by exactly ten ASCII digits
VersionPattern(s) ==
    /\ Len(s) = 11
    /\ SubSeq(s, 1, 1) = "v"
    /\ \A i \in 2..11 : SubSeq(s, i, i) \in {"0", "1", "2", "3", "4", "5", "6", "7", "8", "9"}

\* the segment has a '_' and fewer than 4 characters before the first one
ShortPrefix(s) ==
    /\ PositionsOf(s, "_") # {}
    /\ Least(PositionsOf(s, "_")) - 1 < 4

\* the text of a public id part: its head, and its extension after a '.'
PartText(part) ==
    IF IsSome(part[2]) THEN part[1] \o "." \o Unwrap(part[2]) ELSE part[1]

\* the latest iteration left the locals of the loop alone
SegmentDiscarded == Unwrap(scan).st = Unwrap(scan).prev

\* the latest iteration appended its segment to the public id parts
SegmentTaken ==
    /\ Len(PartsAfter) = Len(PartsBefore) + 1
    /\ SubSeq(PartsAfter, 1, Len(PartsBefore)) = PartsBefore
    /\ PartText(PartsAfter[Len(PartsAfter)]) = ScannedSegment

\* the URL of the test from_url_with_transformations
VersionedTestUrl ==
    UrlParse("res.cloudinary.com",
             "/i/image/upload/c_scale,h_800,q_auto/v1233456678/path/name.jpg")

\* C24: while the latch is false, a segment 'v' + exactly 10 ASCII digits
\* sets the latch and adds nothing to the public id; a segment that starts
\* with 'v' but is not of that form is not a version (it is discarded as a
\* transformation or taken as a public id segment); the URL
\* .../i/image/upload/c_scale,h_800,q_auto/v1233456678/path/name.jpg parses
\* to cloud 'i', public id 'path/name', format 'jpg'.
C24_VersionSegment ==
    /\ (Scanned /\ ~LatchBefore /\ VersionPattern(ScannedSegment)) =>
            (LatchAfter /\ PartsAfter = PartsBefore)
    /\ (Scanned /\ ~LatchBefore /\ SubSeq(ScannedSegment, 1, 1) = "v"
            /\ ~VersionPattern(ScannedSegment)) =>
            IF ShortPrefix(ScannedSegment) THEN SegmentDiscarded
            ELSE LatchAfter /\ SegmentTaken
    /\ (IsSome(scan) /\ IsSome(result) /\ Unwrap(scan).url = VersionedTestUrl) =>
            result = Some(Ok(ImageSetFormat(ImageNew("i", "path/name"), "jpg")))

\* C24 witness: a version segment has just set the latch
C24_Witness ==
    /\ Scanned
    /\ ~LatchBefore
    /\ VersionPattern(ScannedSegment)
    /\ LatchAfter
    /\ PartsAfter = << >>

\* C25: while the latch is false, a non-version segment with a '_' whose
\* prefix before the first '_' is shorter than 4 characters is discarded and
\* the latch stays false; a non-version segment with no '_' or a longer
\* prefix sets the latch and becomes the first public id segment.
C25_TransformationSegment ==
    (Scanned /\ ~LatchBefore /\ ~VersionPattern(ScannedSegment)) =>
        IF ShortPrefix(ScannedSegment)
        THEN SegmentDiscarded /\ ~LatchAfter
        ELSE LatchAfter /\ SegmentTaken /\ Len(PartsAfter) = 1

\* C25 witness: a segment with an empty prefix before '_' was discarded
C25_Witness ==
    /\ Scanned
    /\ ~LatchBefore
    /\ ScannedSegment = "_x"
    /\ ~LatchAfter
    /\ PartsAfter = << >>

\* the path segments after the delivery type that the loop has matched
ScannedRest ==
    SubSeq(Unwrap(UrlPathSegments(Unwrap(scan).url)), 4, Unwrap(scan).pos)

\* the public id of an image, with its format after a '.'
IdWithFormat(img) ==
    IF IsSome(img.format) THEN img.public_id \o "." \o Unwrap(img.format)
    ELSE img.public_id

\* C26: the latch never returns to false; once it is set every later segment
\* becomes part of the public id, in URL order and joined with '/', even when
\* it matches the version pattern or the transformation heuristic; at most
\* one version segment is consumed per URL.
C26_LatchStaysSet ==
    /\ (IsSome(scan) /\ LatchBefore) => LatchAfter
    /\ (Scanned /\ LatchBefore) => SegmentTaken
    /\ (Scanned /\ IsSome(result) /\ Unwrap(result).tag = "Ok") =>
            IdWithFormat(Unwrap(result).image)
                = Join(SubSeq(ScannedRest, Len(ScannedRest) - Len(PartsAfter) + 1,
                              Len(ScannedRest)), "/")
    /\ Scanned =>
            Cardinality({k \in 1..(Len(ScannedRest) - Len(PartsAfter)) :
                            VersionPattern(ScannedRest[k])}) <= 1

\* C26 witness: a segment of the version pattern was taken into the public id
\* after the latch was set
C26_Witness ==
    /\ Scanned
    /\ LatchBefore
    /\ VersionPattern(ScannedSegment)
    /\ SegmentTaken
    /\ IsSome(result)
    /\ Unwrap(result).tag = "Ok"

\* the image is the one try_from returned
ParsedImage == IsSome(scan) /\ IsSome(image)

\* the segments of the public id among the segments after the delivery type:
\* those after the leading transformation segments and one version segment
PublicIdSegments(rest) ==
    LET first == Least({k \in 1..Len(rest) : ~ShortPrefix(rest[k])})
    IN  SubSeq(rest, IF VersionPattern(rest[first]) THEN first + 1 ELSE first, Len(rest))

\* the URL of the test replace_format
ReplaceFormatUrl ==
    UrlParse("res.cloudinary.com", "/i/image/upload/c_scale,h_800,q_auto/path/name.jpg")

\* C27: an image obtained by parsing a URL carries no transformations: the
\* URL built from it has, after cloud name, 'image' and 'upload', only the
\* segments of the public id, whatever transformation and version segments
\* the parsed URL had; parsing
\* .../i/image/upload/c_scale,h_800,q_auto/path/name.jpg, setting the format
\* 'png' and building gives .../i/image/upload/path/name.png.
C27_ParsedImageHasNoTransformations ==
    /\ ParsedImage => Unwrap(image).transformations = << >>
    /\ (ParsedImage /\ Built) =>
            LET segs == Unwrap(UrlPathSegments(Unwrap(url)))
            IN  /\ Len(segs) = 3 + Len(PublicIdSegments(ScannedRest))
                /\ segs[2] = "image"
                /\ segs[3] = "upload"
    /\ (ParsedImage /\ Built /\ Unwrap(scan).url = ReplaceFormatUrl
            /\ last_set = Some("png")) =>
            url = Some(UrlParse("res.cloudinary.com", "/i/image/upload/path/name.png"))

\* C27 witness: the image parsed from a URL with a transformation and a
\* version segment before the public id was given the format 'png' and built
C27_Witness ==
    /\ ParsedImage
    /\ Built
    /\ Len(ScannedRest) = Len(PublicIdSegments(ScannedRest)) + 2
    /\ last_set = Some("png")

\* vocabulary of the signed and sent fields
\* the fields of the form, as a set of <<name, value>>
SentFields == {Unwrap(form)[i] : i \in 1..Len(Unwrap(form))}

\* the '&'-separated pieces of the signed string
SignedPieces == Split(Unwrap(hashed), "&")

\* the options other than resource_type, as 'key=value' texts
OtherOptionTexts ==
    {k \o "=" \o GetMap(options)[k] : k \in DOMAIN options \ {"resource_type"}}

(***************************************************************************)
(* C28: the option resource_type is sent as a form field but is not part   *)
(* of the signed string; every other option is both signed and sent, with  *)
(* the same key and value; with no other option the signed string is       *)
(* 'timestamp=<ts>' followed by the secret, with no leading '&'.           *)
(***************************************************************************)
C28_ResourceTypeSentNotSigned ==
    FormBuilt =>
        LET n == Len(SignedPieces)
            last == "timestamp=" \o FormField(Unwrap(form), "timestamp")
                        \o TheUpload.api_secret
        IN  /\ "resource_type" \in DOMAIN options =>
                    <<"resource_type", GetMap(options)["resource_type"]>> \in SentFields
            /\ \A i \in 1..n : ~StartsWithAt(SignedPieces[i], "resource_type=", 1)
            /\ \A k \in DOMAIN options \ {"resource_type"} :
                    <<k, GetMap(options)[k]>> \in SentFields
            /\ {SignedPieces[i] : i \in 1..(n - 1)} = OtherOptionTexts
            /\ n - 1 = Cardinality(OtherOptionTexts)
            /\ SignedPieces[n] = last
            /\ DOMAIN options \subseteq {"resource_type"} => Unwrap(hashed) = last

\* C28 witness: the form was built for options with a resource type and a
\* folder: 'folder=...' is signed, the resource type is only sent
C28_Witness ==
    /\ FormBuilt
    /\ DOMAIN options = {"resource_type", "folder"}
    /\ <<"resource_type", "image">> \in SentFields
    /\ Len(SignedPieces) = 2
    /\ StartsWithAt(SignedPieces[1], "folder=", 1)

(***************************************************************************)
(* C29 as stated: after any sequence of add_tags / remove_tags calls,      *)
(* calls with an empty list included, get_tags() is None exactly when the  *)
(* accumulated tag set is empty and otherwise Some of exactly the tags     *)
(* added and not since removed; get_map() has the key 'tags' only in the   *)
(* second case.  The code stores an empty set when add_tags is called with *)
(* an empty list on options without tags: get_tags() is then Some of the   *)
(* empty set and get_map() has the key 'tags'.                             *)
(***************************************************************************)
C29_TagsNoneIffEmpty ==
    /\ GetTags(options) = IF accumulated = {} THEN None ELSE Some(accumulated)
    /\ "tags" \in DOMAIN GetMap(options) <=> accumulated # {}

\* the key of a parameter: the first component of its pair
KeyOf(p) == OptionalParametersGetPair(p)[1]

\* the set holds at most one parameter per key
OnePerKey(set) == \A a \in set : \A b \in set : KeyOf(a) = KeyOf(b) => a = b

====
